---- MODULE Spec2Model ----
(***************************************************************************)
(* A model of the geometry kernel of ai-3d-generator:                      *)
(*   core/text_to_3d/base_model.py    (DemoText3DModel, BaseText3DModel)   *)
(*   core/text_to_3d/model_manager.py (ModelManager)                       *)
(*   core/mesh_processing/mesh_utils.py (MeshProcessor)                    *)
(* and of the job layer that drives it:                                    *)
(*   api/main.py (ConnectionManager, generate_3d_model, process_generation)*)
(*                                                                         *)
(* Numbers.  Coordinates are fixed-point integers: a coordinate c stands   *)
(* for the real number c / res, where res is the resolution of the         *)
(* behaviour (GenRes for generated primitives, FineRes for caller-supplied *)
(* meshes).  Derived quantities keep the denominators the code divides by: *)
(*   surface areas are counted in halves of a square unit  (|cross| / 2),  *)
(*   volumes in sixths of a cubic unit                     (dot / 6),      *)
(*   bounding-box centres in halves of a unit              ((min+max)/2).  *)
(* Norms are integer square roots (rounded down).                          *)
(*                                                                         *)
(* Arrays.  A numpy array is a record [ndim, cols, rows]: ndim is its      *)
(* rank (0, 1 or 2), rows its first-axis elements (integers for rank 1,    *)
(* tuples of length cols for rank 2).                                      *)
(***************************************************************************)
EXTENDS Integers, Sequences, FiniteSets, TLC

VARIABLES
    res,        \* fixed-point resolution of the coordinates of this behaviour
    vertices,   \* the caller's current vertex array
    faces,      \* the caller's current face array
    models,     \* ModelManager._models: name -> [kind, available, is_loaded]
    op,         \* the operation that ran last
    arg,        \* its arguments
    out,        \* what it returned (or raised)
    report,     \* the last ValidationReport, if any
    generation_jobs,     \* api/main.py generation_jobs: job id -> job
    tasks,               \* the process_generation task of each job
    active_connections   \* ConnectionManager.active_connections

\* the state of the job layer (api/main.py)
api == <<generation_jobs, tasks, active_connections>>

vars == <<res, vertices, faces, models, op, arg, out, report, api>>

-----------------------------------------------------------------------------
(* Bounds of the model *)

MaxVerts == 3
MaxFaces == 2
MaxRows == 2

-----------------------------------------------------------------------------
(* Fixed-point resolutions and program constants *)

\* generated primitives: 1.0 = 64 units (sizes 0.5, 1.0, 2.0 have exact halves)
GenRes == 64
\* caller-supplied meshes: 1 unit = 1e-5, so the area epsilon 1e-10 is 1 unit^2
FineRes == 100000
\* 1 / sqrt(1e-10), the degenerate-face epsilon of _remove_degenerate_faces
EpsInv == 100000
\* 1 / rtol of np.allclose (rtol defaults to 1e-5)
RTolDen == 100000
\* repaired meshes: 1 unit = 1e-6, the default weld tolerance
RepairRes == 1000000
\* scale of the sine table
TrigScale == 1000
LatSegments == 16
LonSegments == 32
CylSegments == 16

-----------------------------------------------------------------------------
(* Arithmetic *)

Abs(x) == IF x < 0 THEN -x ELSE x

Sign(x) == IF x < 0 THEN -1 ELSE IF x > 0 THEN 1 ELSE 0

\* n / d rounded to the nearest integer (d > 0), halves away from zero
RoundDiv(n, d) == Sign(n) * ((2 * Abs(n) + d) \div (2 * d))

RECURSIVE SqrtBetween(_, _, _)
SqrtBetween(n, lo, hi) ==
    IF lo >= hi THEN lo
    ELSE LET mid == (lo + hi + 1) \div 2
         IN  IF mid * mid <= n THEN SqrtBetween(n, mid, hi)
                               ELSE SqrtBetween(n, lo, mid - 1)

\* floor of the square root of n, 0 <= n < 2^31
ISqrt(n) == SqrtBetween(n, 0, IF n < 46340 THEN n ELSE 46340)


\* all sequences over S of length at most n
SeqUpTo(S, n) == UNION {[1..k -> S] : k \in 0..n}

-----------------------------------------------------------------------------
(* Vectors (3-tuples) *)

Sub(a, b) == [k \in 1..Len(a) |-> a[k] - b[k]]

Cross(a, b) == << a[2] * b[3] - a[3] * b[2],
                  a[3] * b[1] - a[1] * b[3],
                  a[1] * b[2] - a[2] * b[1] >>

Dot(a, b) == a[1] * b[1] + a[2] * b[2] + a[3] * b[3]

NormSq(a) == Dot(a, a)

\* np.linalg.norm of an integer vector, rounded down
Norm(a) == ISqrt(NormSq(a))

-----------------------------------------------------------------------------
(* Arrays *)

Arr(ndim, cols, rows) == [ndim |-> ndim, cols |-> cols, rows |-> rows]

\* np.array(list of rows): an empty list gives the rank-1 array of shape (0,)
NpArray(rows, cols) ==
    IF rows = <<>> THEN Arr(1, 0, <<>>) ELSE Arr(2, cols, rows)

\* an array of shape (N, 3)
IsN3(a) == a.ndim = 2 /\ a.cols = 3

NRows(a) == Len(a.rows)

\* a rank-0 array: rows holds its single item (len() of it raises)
Scalar(item) == Arr(0, 0, <<item>>)

\* every scalar element of an array
Elements(a) ==
    IF a.ndim = 2
    THEN UNION {{a.rows[k][c] : c \in 1..a.cols} : k \in 1..Len(a.rows)}
    ELSE {a.rows[k] : k \in 1..Len(a.rows)}

\* a numpy index i into an axis of length n: -n..-1 count from the end
IndexOK(n, i) == -n <= i /\ i < n
At(rows, i) == IF i >= 0 THEN rows[i + 1] ELSE rows[Len(rows) + i + 1]

-----------------------------------------------------------------------------
(* Trigonometry: angles are multiples of pi/16 *)

SinTable == <<0, 195, 383, 556, 707, 831, 924, 981, 1000>>

\* TrigScale * sin(k * pi / 16)
SinT(k) ==
    LET m == k % 32
    IN  IF m <= 8 THEN SinTable[m + 1]
        ELSE IF m <= 16 THEN SinTable[16 - m + 1]
        ELSE IF m <= 24 THEN -SinTable[m - 16 + 1]
        ELSE -SinTable[32 - m + 1]

CosT(k) == SinT(k + 8)

-----------------------------------------------------------------------------
(* DemoText3DModel: the shape generators.  size is in coordinate units.   *)

\* the face table of the cube with its first triangle reversed
CubeFacesFirstReversed ==
    << <<0, 2, 1>>, <<0, 2, 3>>,
       <<4, 7, 6>>, <<4, 6, 5>>,
       <<0, 4, 5>>, <<0, 5, 1>>,
       <<2, 6, 7>>, <<2, 7, 3>>,
       <<0, 3, 7>>, <<0, 7, 4>>,
       <<1, 5, 6>>, <<1, 6, 2>> >>

CubeFaces ==
    << <<0, 1, 2>>, <<0, 2, 3>>,
       <<4, 7, 6>>, <<4, 6, 5>>,
       <<0, 4, 5>>, <<0, 5, 1>>,
       <<2, 6, 7>>, <<2, 7, 3>>,
       <<0, 3, 7>>, <<0, 7, 4>>,
       <<1, 5, 6>>, <<1, 6, 2>> >>

\* the cube built from the magnitude of size
CreateCubeAbsSize(size) ==
    LET s == Abs(size) \div 2
    IN  [vertices |-> Arr(2, 3,
            << <<-s, -s, -s>>, <<s, -s, -s>>, <<s, s, -s>>, <<-s, s, -s>>,
               <<-s, -s, s>>, <<s, -s, s>>, <<s, s, s>>, <<-s, s, s>> >>),
         faces |-> Arr(2, 3, CubeFaces)]

CreateCube(size) ==
    LET s == size \div 2
    IN  [vertices |-> Arr(2, 3,
            << <<-s, -s, -s>>, <<s, -s, -s>>, <<s, s, -s>>, <<-s, s, -s>>,
               <<-s, -s, s>>, <<s, -s, s>>, <<s, s, s>>, <<-s, s, s>> >>),
         faces |-> Arr(2, 3, CubeFaces)]

SphereVertex(radius, i, j) ==
    LET lat == (16 * i) \div LatSegments - 8
        lon == (32 * j) \div LonSegments
    IN  << RoundDiv(radius * CosT(lat) * CosT(lon), TrigScale * TrigScale),
           RoundDiv(radius * SinT(lat), TrigScale),
           RoundDiv(radius * CosT(lat) * SinT(lon), TrigScale * TrigScale) >>

SphereFace(i, j, second_triangle) ==
    LET first == i * (LonSegments + 1) + j
        second == first + LonSegments + 1
    IN  IF second_triangle THEN <<second, second + 1, first + 1>>
                           ELSE <<first, second, first + 1>>

\* the sphere without the duplicated seam column of vertices (j = lon_segments)
CreateSphereNoSeam(size) ==
    LET radius == size \div 2
        nv == (LatSegments + 1) * LonSegments
        nf == 2 * LatSegments * LonSegments
    IN  [vertices |-> NpArray(
            [k \in 1..nv |-> SphereVertex(radius, (k - 1) \div LonSegments,
                                                  (k - 1) % LonSegments)], 3),
         faces |-> NpArray(
            [k \in 1..nf |->
                LET i == ((k - 1) \div 2) \div LonSegments
                    j == ((k - 1) \div 2) % LonSegments
                    first == i * LonSegments + j
                    right == i * LonSegments + ((j + 1) % LonSegments)
                IN  IF (k - 1) % 2 = 1
                    THEN <<first + LonSegments, right + LonSegments, right>>
                    ELSE <<first, first + LonSegments, right>>], 3)]

CreateSphere(size) ==
    LET radius == size \div 2
        nv == (LatSegments + 1) * (LonSegments + 1)
        nf == 2 * LatSegments * LonSegments
    IN  [vertices |-> NpArray(
            [k \in 1..nv |-> SphereVertex(radius, (k - 1) \div (LonSegments + 1),
                                                  (k - 1) % (LonSegments + 1))], 3),
         faces |-> NpArray(
            [k \in 1..nf |-> SphereFace(((k - 1) \div 2) \div LonSegments,
                                        ((k - 1) \div 2) % LonSegments,
                                        (k - 1) % 2 = 1)], 3)]

CylinderVertex(radius, half_height, k) ==
    IF k = 0 THEN <<0, -half_height, 0>>
    ELSE IF k = 1 THEN <<0, half_height, 0>>
    ELSE LET i == (k - 2) \div 2
             angle == (32 * i) \div CylSegments
             x == RoundDiv(radius * CosT(angle), TrigScale)
             z == RoundDiv(radius * SinT(angle), TrigScale)
         IN  IF (k - 2) % 2 = 0 THEN <<x, -half_height, z>>
                                ELSE <<x, half_height, z>>

\* the faces of the cylinder without the wrap of the last segment to the first
CylinderFaceNoWrap(k) ==
    IF k < CylSegments
    THEN LET i == k
             next_i == i + 1
         IN  <<0, 2 + i * 2, 2 + next_i * 2>>
    ELSE IF k < 2 * CylSegments
    THEN LET i == k - CylSegments
             next_i == i + 1
         IN  <<1, 3 + next_i * 2, 3 + i * 2>>
    ELSE LET i == (k - 2 * CylSegments) \div 2
             next_i == i + 1
         IN  IF (k - 2 * CylSegments) % 2 = 0
             THEN <<2 + i * 2, 3 + i * 2, 2 + next_i * 2>>
             ELSE <<3 + i * 2, 3 + next_i * 2, 2 + next_i * 2>>

CylinderFace(k) ==
    IF k < CylSegments
    THEN LET i == k
             next_i == (i + 1) % CylSegments
         IN  <<0, 2 + i * 2, 2 + next_i * 2>>
    ELSE IF k < 2 * CylSegments
    THEN LET i == k - CylSegments
             next_i == (i + 1) % CylSegments
         IN  <<1, 3 + next_i * 2, 3 + i * 2>>
    ELSE LET i == (k - 2 * CylSegments) \div 2
             next_i == (i + 1) % CylSegments
         IN  IF (k - 2 * CylSegments) % 2 = 0
             THEN <<2 + i * 2, 3 + i * 2, 2 + next_i * 2>>
             ELSE <<3 + i * 2, 3 + next_i * 2, 2 + next_i * 2>>

CreateCylinder(size) ==
    LET radius == size \div 2
        half_height == size \div 2
    IN  [vertices |-> NpArray(
            [k \in 1..(2 + 2 * CylSegments) |->
                CylinderVertex(radius, half_height, k - 1)], 3),
         faces |-> NpArray(
            [k \in 1..(4 * CylSegments) |-> CylinderFace(k - 1)], 3)]

CreatePyramid(size) ==
    LET s == size \div 2
        hh == size \div 2
    IN  [vertices |-> Arr(2, 3,
            << <<-s, -hh, -s>>, <<s, -hh, -s>>, <<s, -hh, s>>, <<-s, -hh, s>>,
               <<0, hh, 0>> >>),
         faces |-> Arr(2, 3,
            << <<0, 1, 2>>, <<0, 2, 3>>,
               <<0, 4, 1>>, <<1, 4, 2>>, <<2, 4, 3>>, <<3, 4, 0>> >>)]

\* the dispatch of DemoText3DModel.generate_3d
CreateShape(shape_type, size) ==
    IF shape_type = "sphere" THEN CreateSphere(size)
    ELSE IF shape_type = "cylinder" THEN CreateCylinder(size)
    ELSE IF shape_type = "pyramid" THEN CreatePyramid(size)
    ELSE CreateCube(size)

-----------------------------------------------------------------------------
(* MeshProcessor: the estimators                                           *)

ColMin(rows, c) == CHOOSE m \in {rows[k][c] : k \in 1..Len(rows)} :
                       \A k \in 1..Len(rows) : m <= rows[k][c]
ColMax(rows, c) == CHOOSE m \in {rows[k][c] : k \in 1..Len(rows)} :
                       \A k \in 1..Len(rows) : m >= rows[k][c]
ScalarMin(rows) == CHOOSE m \in {rows[k] : k \in 1..Len(rows)} :
                       \A k \in 1..Len(rows) : m <= rows[k]
ScalarMax(rows) == CHOOSE m \in {rows[k] : k \in 1..Len(rows)} :
                       \A k \in 1..Len(rows) : m >= rows[k]

\* np.min / np.max over axis 0 of an array of rank 1 or 2 with at least one row
AxisMin(V) == IF V.ndim = 1 THEN ScalarMin(V.rows)
              ELSE [c \in 1..V.cols |-> ColMin(V.rows, c)]
AxisMax(V) == IF V.ndim = 1 THEN ScalarMax(V.rows)
              ELSE [c \in 1..V.cols |-> ColMax(V.rows, c)]
AxisDiff(V, hi, lo) == IF V.ndim = 1 THEN hi - lo
                       ELSE [c \in 1..V.cols |-> hi[c] - lo[c]]
AxisSum(V, hi, lo) == IF V.ndim = 1 THEN hi + lo
                      ELSE [c \in 1..V.cols |-> hi[c] + lo[c]]

\* _calculate_bounding_box; "center" is in halves of a unit.  The empty
\* branch returns no "center" key.
CalculateBoundingBox(V) ==
    IF NRows(V) = 0
    THEN [min |-> <<0, 0, 0>>, max |-> <<0, 0, 0>>, size |-> <<0, 0, 0>>]
    ELSE LET min_coords == AxisMin(V)
             max_coords == AxisMax(V)
         IN  [min |-> min_coords, max |-> max_coords,
              size |-> AxisDiff(V, max_coords, min_coords),
              center |-> AxisSum(V, max_coords, min_coords)]

\* `vertices[face[:3]]` raises IndexError
TripleRaises(V, face) ==
    \/ V.ndim = 0
    \/ \E c \in 1..3 : ~IndexOK(NRows(V), face[c])

Triple(V, face) == [c \in 1..3 |-> At(V.rows, face[c])]

\* `for face in faces` / `len(face)` raise TypeError: a rank-0 array is not
\* iterable, the elements of a rank-1 array have no len()
FaceLoopRaises(F) == F.ndim = 0 \/ (F.ndim = 1 /\ NRows(F) > 0)

\* np.cross raises ValueError unless the vectors have 2 or 3 components
CrossRaises(V) == V.ndim # 2 \/ V.cols \notin {2, 3}

\* |cross(v1 - v0, v2 - v0)| of one face: twice its area
AreaTerm(V, face) ==
    LET t == Triple(V, face)
        edge1 == Sub(t[2], t[1])
        edge2 == Sub(t[3], t[1])
    IN  IF V.cols = 2 THEN Abs(edge1[1] * edge2[2] - edge1[2] * edge2[1])
        ELSE Norm(Cross(edge1, edge2))

\* two consecutive stretches of a loop: the first exception ends it
Then(first, second) ==
    IF first.raised THEN first
    ELSE IF second.raised THEN second
    ELSE [raised |-> FALSE, value |-> first.value + second.value]

\* one iteration of the loop of _estimate_surface_area
AreaStep(V, F, k) ==
    IF F.cols < 3 THEN [raised |-> FALSE, value |-> 0]
    ELSE IF TripleRaises(V, F.rows[k]) \/ CrossRaises(V)
         THEN [raised |-> TRUE, value |-> 0]
    ELSE [raised |-> FALSE, value |-> AreaTerm(V, F.rows[k])]

\* the loop of _estimate_surface_area over faces lo..hi: the total added,
\* or "raised" as soon as one face raises (split in halves to keep the
\* evaluation shallow)
RECURSIVE AreaLoop(_, _, _, _)
AreaLoop(V, F, lo, hi) ==
    IF lo > hi THEN [raised |-> FALSE, value |-> 0]
    ELSE IF lo = hi THEN AreaStep(V, F, lo)
    ELSE LET mid == (lo + hi) \div 2
         IN  Then(AreaLoop(V, F, lo, mid), AreaLoop(V, F, mid + 1, hi))

\* _estimate_surface_area, in halves of a square unit: the try wraps the
\* whole loop, so one raising face makes the result 0.0
EstimateSurfaceArea(V, F) ==
    IF FaceLoopRaises(F) THEN 0
    ELSE LET r == AreaLoop(V, F, 1, NRows(F))
         IN  IF r.raised THEN 0 ELSE r.value

\* dot(v0, cross(v1, v2)) of one face: six times its signed volume
VolumeTerm(V, face) ==
    LET t == Triple(V, face)
    IN  Dot(t[1], Cross(t[2], t[3]))

\* one iteration of the loop of MeshProcessor._estimate_volume
VolumeStep(V, F, k) ==
    IF F.cols < 3 THEN [raised |-> FALSE, value |-> 0]
    ELSE IF TripleRaises(V, F.rows[k]) \/ CrossRaises(V)
         THEN [raised |-> TRUE, value |-> 0]
    ELSE IF V.cols = 2 THEN [raised |-> FALSE, value |-> 0]
    ELSE [raised |-> FALSE, value |-> VolumeTerm(V, F.rows[k])]

\* the loop of MeshProcessor._estimate_volume over faces lo..hi
RECURSIVE VolumeLoop(_, _, _, _)
VolumeLoop(V, F, lo, hi) ==
    IF lo > hi THEN [raised |-> FALSE, value |-> 0]
    ELSE IF lo = hi THEN VolumeStep(V, F, lo)
    ELSE LET mid == (lo + hi) \div 2
         IN  Then(VolumeLoop(V, F, lo, mid), VolumeLoop(V, F, mid + 1, hi))

\* with 2-column vertices np.cross is a scalar and each term a 2-vector, so
\* `volume` becomes an array as soon as one face was added
VolumeIsArray(V, F) ==
    V.ndim = 2 /\ V.cols = 2 /\ F.ndim = 2 /\ F.cols >= 3 /\ NRows(F) > 0

\* MeshProcessor._estimate_volume, in sixths of a cubic unit.  The try
\* wraps the loop only: `abs(float(volume))` follows it, and float() of a
\* 2-element array raises TypeError to the caller.
EstimateVolume(V, F) ==
    IF FaceLoopRaises(F) THEN [raised |-> FALSE, value |-> 0]
    ELSE LET r == VolumeLoop(V, F, 1, NRows(F))
         IN  IF r.raised THEN [raised |-> FALSE, value |-> 0]
             ELSE IF VolumeIsArray(V, F) THEN [raised |-> TRUE, value |-> 0]
             ELSE [raised |-> FALSE, value |-> Abs(r.value)]

-----------------------------------------------------------------------------
(* MeshProcessor.validate_mesh                                             *)

\* what trimesh.Trimesh(...) can answer: it raises, or it gives the two flags
TopoOutcomes ==
    {[raised |-> TRUE, is_manifold |-> FALSE, is_watertight |-> FALSE]} \cup
    {[raised |-> FALSE, is_manifold |-> m, is_watertight |-> w] :
        m \in BOOLEAN, w \in BOOLEAN}

InvalidShape(a) == a.ndim # 2 \/ a.cols # 3

\* the structural checks as a chain that stops at the first failure
StructuralChecksFirstFailure(V, F) ==
    [raised |-> FALSE,
     errors |->
        IF InvalidShape(V) THEN <<"Invalid vertex shape">>
        ELSE IF InvalidShape(F) THEN <<"Invalid face shape">>
        ELSE IF NRows(V) = 0 THEN <<"No vertices found">>
        ELSE IF NRows(F) = 0 THEN <<"No faces found">>
        ELSE IF \E i \in Elements(F) : i > NRows(V) - 1
             THEN <<"Face indices exceed vertex count">>
        ELSE IF \E i \in Elements(F) : i < 0
             THEN <<"Negative face indices found">>
        ELSE <<>>]

\* the structural checks with the index bound taken as len(vertices), in the
\* place of len(vertices) - 1
StructuralChecksBoundOffByOne(V, F) ==
    LET shape_v == IF InvalidShape(V) THEN <<"Invalid vertex shape">> ELSE <<>>
        shape_f == IF InvalidShape(F) THEN <<"Invalid face shape">> ELSE <<>>
        e2 == shape_v \o shape_f
    IN  IF V.ndim = 0 THEN [raised |-> TRUE, errors |-> e2]
        ELSE
        LET e3 == e2 \o (IF NRows(V) = 0 THEN <<"No vertices found">> ELSE <<>>)
        IN  IF F.ndim = 0 THEN [raised |-> TRUE, errors |-> e3]
            ELSE
            LET max_vertex_index == NRows(V)
                e4 == e3 \o (IF NRows(F) = 0 THEN <<"No faces found">> ELSE <<>>)
                e5 == e4 \o (IF \E i \in Elements(F) : i > max_vertex_index
                             THEN <<"Face indices exceed vertex count">>
                             ELSE <<>>)
                e6 == e5 \o (IF \E i \in Elements(F) : i < 0
                             THEN <<"Negative face indices found">>
                             ELSE <<>>)
            IN  [raised |-> FALSE, errors |-> e6]

\* the sequence of structural checks, up to the first statement that
\* raises: [raised, errors]
StructuralChecks(V, F) ==
    LET shape_v == IF InvalidShape(V) THEN <<"Invalid vertex shape">> ELSE <<>>
        shape_f == IF InvalidShape(F) THEN <<"Invalid face shape">> ELSE <<>>
        e2 == shape_v \o shape_f
    IN  IF V.ndim = 0 THEN [raised |-> TRUE, errors |-> e2]
        ELSE
        LET e3 == e2 \o (IF NRows(V) = 0 THEN <<"No vertices found">> ELSE <<>>)
        IN  IF F.ndim = 0 THEN [raised |-> TRUE, errors |-> e3]
            ELSE
            LET max_vertex_index == NRows(V) - 1
                e4 == e3 \o (IF NRows(F) = 0 THEN <<"No faces found">> ELSE <<>>)
                e5 == e4 \o (IF \E i \in Elements(F) : i > max_vertex_index
                             THEN <<"Face indices exceed vertex count">>
                             ELSE <<>>)
                e6 == e5 \o (IF \E i \in Elements(F) : i < 0
                             THEN <<"Negative face indices found">>
                             ELSE <<>>)
            IN  [raised |-> FALSE, errors |-> e6]

\* the "Advanced validation" block: the flags and warnings it adds
TopoStats(topo) ==
    IF topo.raised THEN <<>>
    ELSE [is_manifold |-> topo.is_manifold, is_watertight |-> topo.is_watertight]

\* the warnings with the failure of the analysis swallowed silently
TopoWarningsSilentFailure(topo) ==
    IF topo.raised THEN <<>>
    ELSE (IF topo.is_manifold THEN <<>> ELSE <<"Mesh is not manifold">>)
         \o (IF topo.is_watertight THEN <<>> ELSE <<"Mesh is not watertight">>)

TopoWarnings(topo) ==
    IF topo.raised THEN <<"Advanced validation failed">>
    ELSE (IF topo.is_manifold THEN <<>> ELSE <<"Mesh is not manifold">>)
         \o (IF topo.is_watertight THEN <<>> ELSE <<"Mesh is not watertight">>)

\* the body of the outer try with a warning of the topology analysis
\* counted as a failure
ValidateBodyWarningsInvalidate(V, F, topo) ==
    LET checks == StructuralChecks(V, F)
        partial == [is_valid |-> checks.errors = <<>>, errors |-> checks.errors,
                    warnings |-> <<>>, stats |-> <<>>]
    IN  IF checks.raised THEN [raised |-> TRUE, report |-> partial]
        ELSE
        LET volume == EstimateVolume(V, F)
        IN  IF volume.raised THEN [raised |-> TRUE, report |-> partial]
            ELSE [raised |-> FALSE,
                  report |-> [partial EXCEPT
                      !.stats = [vertex_count |-> NRows(V),
                                 face_count |-> NRows(F),
                                 bounding_box |-> CalculateBoundingBox(V),
                                 surface_area |-> EstimateSurfaceArea(V, F),
                                 volume |-> volume.value] @@ TopoStats(topo),
                      !.warnings = TopoWarnings(topo),
                      !.is_valid = @ /\ TopoWarnings(topo) = <<>>]]

\* the body of the outer try: [raised, report]
ValidateBody(V, F, topo) ==
    LET checks == StructuralChecks(V, F)
        partial == [is_valid |-> checks.errors = <<>>, errors |-> checks.errors,
                    warnings |-> <<>>, stats |-> <<>>]
    IN  IF checks.raised THEN [raised |-> TRUE, report |-> partial]
        ELSE
        LET volume == EstimateVolume(V, F)
        IN  IF volume.raised THEN [raised |-> TRUE, report |-> partial]
            ELSE [raised |-> FALSE,
                  report |-> [partial EXCEPT
                      !.stats = [vertex_count |-> NRows(V),
                                 face_count |-> NRows(F),
                                 bounding_box |-> CalculateBoundingBox(V),
                                 surface_area |-> EstimateSurfaceArea(V, F),
                                 volume |-> volume.value] @@ TopoStats(topo),
                      !.warnings = TopoWarnings(topo)]]

\* an exception that leaves validate_mesh instead of being caught
OuterExceptMissing(body) ==
    IF body.raised THEN [raised |-> TRUE] ELSE [raised |-> FALSE] @@ body.report

\* the outer `except Exception`: record the error and return the report
OuterExcept(body) ==
    IF body.raised
    THEN [raised |-> FALSE] @@
         [body.report EXCEPT !.errors = @ \o <<"Validation error">>,
                             !.is_valid = FALSE]
    ELSE [raised |-> FALSE] @@ body.report

ValidateMesh(V, F, topo) == OuterExcept(ValidateBody(V, F, topo))

-----------------------------------------------------------------------------
(* MeshProcessor: repair                                                   *)

\* np.isclose of two numbers: |x - y| <= atol + rtol * |y| with the default
\* rtol = 1e-5 (for integers, d <= |y| / RTolDen iff d <= |y| \div RTolDen)
IsClose(x, y, atol) == Abs(x - y) - atol <= Abs(y) \div RTolDen

\* np.allclose(vertex, unique_vertex, atol=tolerance)
AllClose(vertex, unique_vertex, atol) ==
    \A c \in 1..Len(vertex) : IsClose(vertex[c], unique_vertex[c], atol)

\* the inner loop: the (1-based) position of the first kept vertex that
\* np.allclose accepts, 0 when there is none
FirstMatch(vertex, unique_vertices, tolerance) ==
    LET hits == {j \in 1..Len(unique_vertices) :
                    AllClose(vertex, unique_vertices[j], tolerance)}
    IN  IF hits = {} THEN 0 ELSE CHOOSE j \in hits : \A h \in hits : j <= h

\* the outer loop with the last vertex seen kept as the representative of
\* its group, in the place of the first
RECURSIVE WeldScanLastSeen(_, _, _, _, _)
WeldScanLastSeen(rows, i, unique_vertices, vertex_mapping, tolerance) ==
    IF i > Len(rows)
    THEN [unique_vertices |-> unique_vertices, vertex_mapping |-> vertex_mapping]
    ELSE LET j == FirstMatch(rows[i], unique_vertices, tolerance)
         IN  IF j > 0
             THEN WeldScanLastSeen(rows, i + 1,
                                   [unique_vertices EXCEPT ![j] = rows[i]],
                                   Append(vertex_mapping, j - 1), tolerance)
             ELSE WeldScanLastSeen(rows, i + 1, Append(unique_vertices, rows[i]),
                                   Append(vertex_mapping, Len(unique_vertices)),
                                   tolerance)

\* the outer loop from vertex i on: unique_vertices and vertex_mapping
\* (vertex_mapping[i] is 0-based, as in the code)
RECURSIVE WeldScan(_, _, _, _, _)
WeldScan(rows, i, unique_vertices, vertex_mapping, tolerance) ==
    IF i > Len(rows)
    THEN [unique_vertices |-> unique_vertices, vertex_mapping |-> vertex_mapping]
    ELSE LET j == FirstMatch(rows[i], unique_vertices, tolerance)
         IN  IF j > 0
             THEN WeldScan(rows, i + 1, unique_vertices,
                           Append(vertex_mapping, j - 1), tolerance)
             ELSE WeldScan(rows, i + 1, Append(unique_vertices, rows[i]),
                           Append(vertex_mapping, Len(unique_vertices)), tolerance)

\* vertex_mapping[vertex_idx] raises KeyError: the keys are 0..N-1 only
MappingRaises(F, n) == \E i \in Elements(F) : i < 0 \/ i >= n

\* _remove_duplicate_vertices, for vertices of rank 2 (or no rows) and
\* faces of rank 2 (or no rows); any exception returns the input unchanged
RemoveDuplicateVertices(V, F, tolerance) ==
    LET scan == WeldScan(V.rows, 1, <<>>, <<>>, tolerance)
        new_faces == [k \in 1..NRows(F) |->
                        [c \in 1..Len(F.rows[k]) |->
                            scan.vertex_mapping[F.rows[k][c] + 1]]]
    IN  IF MappingRaises(F, NRows(V))
        THEN [vertices |-> V, faces |-> F]
        ELSE [vertices |-> NpArray(scan.unique_vertices, V.cols),
              faces |-> NpArray(new_faces, F.cols)]

\* the epsilon 1e-10 in square units of resolution r (0 below one unit)
EpsUnits(r) == IF r >= EpsInv THEN (r \div EpsInv) * (r \div EpsInv) ELSE 0

\* `area > 1e-10`, where `area` is np.linalg.norm(cross): not halved
AreaAboveEps(cross, r) ==
    \/ \E c \in 1..3 : Abs(cross[c]) > EpsUnits(r)
    \/ NormSq(cross) > EpsUnits(r) * EpsUnits(r)

\* the body of the loop of _remove_degenerate_faces: is the face appended
KeepsFace(V, face, r) ==
    /\ Cardinality({face[c] : c \in 1..Len(face)}) = 3
    /\ ~TripleRaises(V, face)
    /\ LET t == Triple(V, face)
       IN  AreaAboveEps(Cross(Sub(t[2], t[1]), Sub(t[3], t[1])), r)

\* valid_faces after the iterations lo..hi of the loop
RECURSIVE ValidFaces(_, _, _, _, _)
ValidFaces(V, F, lo, hi, r) ==
    IF lo > hi THEN <<>>
    ELSE IF lo = hi
         THEN (IF KeepsFace(V, F.rows[lo], r) THEN <<F.rows[lo]>> ELSE <<>>)
    ELSE LET mid == (lo + hi) \div 2
         IN  ValidFaces(V, F, lo, mid, r) \o ValidFaces(V, F, mid + 1, hi, r)

\* the result of the loop returned as it is, also when no face was kept
FacesEvenIfNone(valid_faces, F) == NpArray(valid_faces, 3)

\* `np.array(valid_faces) if valid_faces else faces`
FacesOrOriginal(valid_faces, F) ==
    IF valid_faces # <<>> THEN NpArray(valid_faces, 3) ELSE F

\* _remove_degenerate_faces, for vertices and faces of shape (N, 3), (M, 3)
RemoveDegenerateFaces(V, F, r) ==
    FacesOrOriginal(ValidFaces(V, F, 1, NRows(F), r), F)

\* 1 / 1e-6, the default tolerance of _remove_duplicate_vertices
TolInv == 1000000

\* the default tolerance in coordinate units of resolution r
DefaultTolerance(r) == r \div TolInv

\* repair_mesh, for arrays of shape (N, 3) and (M, 3): no statement of the
\* try block raises on them, so the handler of line 239 is not entered
RepairMesh(V, F, r) ==
    LET welded == RemoveDuplicateVertices(V, F, DefaultTolerance(r))
    IN  [vertices |-> welded.vertices,
         faces |-> RemoveDegenerateFaces(welded.vertices, welded.faces, r)]

-----------------------------------------------------------------------------
(* BaseText3DModel: postprocessing                                         *)

\* one iteration of the loop of BaseText3DModel._estimate_volume: np.abs
\* is taken per face
BaseVolumeStep(V, F, k) ==
    IF TripleRaises(V, F.rows[k]) THEN [raised |-> TRUE, value |-> 0]
    ELSE [raised |-> FALSE, value |-> Abs(VolumeTerm(V, F.rows[k]))]

\* the loop of BaseText3DModel._estimate_volume over faces lo..hi
RECURSIVE BaseVolumeLoop(_, _, _, _)
BaseVolumeLoop(V, F, lo, hi) ==
    IF lo > hi THEN [raised |-> FALSE, value |-> 0]
    ELSE IF lo = hi THEN BaseVolumeStep(V, F, lo)
    ELSE LET mid == (lo + hi) \div 2
         IN  Then(BaseVolumeLoop(V, F, lo, mid), BaseVolumeLoop(V, F, mid + 1, hi))

\* the volume estimate as the signed sum itself, with no absolute value
BaseEstimateVolumeSigned(V, F) ==
    LET r == VolumeLoop(V, F, 1, NRows(F))
    IN  IF r.raised THEN 0 ELSE r.value

\* BaseText3DModel._estimate_volume on arrays of shape (N, 3), (M, 3), in
\* sixths of a cubic unit; any exception gives 0.0
BaseEstimateVolume(V, F) ==
    LET r == BaseVolumeLoop(V, F, 1, NRows(F))
    IN  IF r.raised THEN 0 ELSE r.value

\* postprocess_geometry: raises ValueError on a wrong shape or empty input
PostprocessGeometry(V, F) ==
    IF InvalidShape(V) \/ InvalidShape(F) \/ NRows(V) = 0 \/ NRows(F) = 0
    THEN [status |-> "ValueError"]
    ELSE LET bbox_min == AxisMin(V)
             bbox_max == AxisMax(V)
         IN  [status |-> "ok", vertices |-> V, faces |-> F,
              metadata |->
                [vertex_count |-> NRows(V),
                 face_count |-> NRows(F),
                 bounding_box |-> [min |-> bbox_min, max |-> bbox_max,
                                   size |-> AxisDiff(V, bbox_max, bbox_min)],
                 volume_estimate |-> BaseEstimateVolume(V, F)]]

-----------------------------------------------------------------------------
(* DemoText3DModel: prompts.  A prompt is a sequence of characters.        *)

SphereWords ==
    << <<"s", "p", "h", "e", "r", "e">>,
       <<"b", "a", "l", "l">>,
       <<"r", "o", "u", "n", "d">>,
       <<"o", "r", "b">> >>

CylinderWords ==
    << <<"c", "y", "l", "i", "n", "d", "e", "r">>,
       <<"t", "u", "b", "e">>,
       <<"p", "i", "p", "e">>,
       <<"r", "o", "d">> >>

PyramidWords ==
    << <<"p", "y", "r", "a", "m", "i", "d">>,
       <<"t", "r", "i", "a", "n", "g", "l", "e">>,
       <<"c", "o", "n", "e">> >>

SmallWords ==
    << <<"s", "m", "a", "l", "l">>,
       <<"t", "i", "n", "y">>,
       <<"m", "i", "n", "i">> >>

LargeWords ==
    << <<"l", "a", "r", "g", "e">>,
       <<"b", "i", "g">>,
       <<"h", "u", "g", "e">>,
       <<"g", "i", "a", "n", "t">> >>

BannedWords ==
    << <<"e", "x", "p", "l", "i", "c", "i", "t">>,
       <<"i", "n", "a", "p", "p", "r", "o", "p", "r", "i", "a", "t", "e">>,
       <<"n", "s", "f", "w">> >>

\* the words prompts are made of; the empty word gives leading, trailing
\* and doubled blanks
Vocabulary ==
    { <<>>,
      <<"c", "u", "b", "e">>,
      <<"B", "a", "l", "l">>,
      <<"r", "o", "d">>,
      <<"c", "o", "n", "e">>,
      <<"t", "i", "n", "y">>,
      <<"b", "i", "g">>,
      <<"g", "r", "o", "u", "n", "d">>,
      <<"n", "s", "f", "w">> }

\* str.lower on the characters in use
Lower(ch) == IF ch = "B" THEN "b" ELSE ch

RECURSIVE Join(_)
\* " ".join(words)
Join(words) ==
    IF words = <<>> THEN <<>>
    ELSE IF Len(words) = 1 THEN words[1]
    ELSE words[1] \o <<" ">> \o Join(Tail(words))

\* str.split(): the maximal runs of non-blank characters
RECURSIVE Split(_, _)
Split(chars, current) ==
    IF chars = <<>> THEN (IF current = <<>> THEN <<>> ELSE <<current>>)
    ELSE IF Head(chars) = " "
         THEN (IF current = <<>> THEN <<>> ELSE <<current>>)
              \o Split(Tail(chars), <<>>)
         ELSE Split(Tail(chars), Append(current, Head(chars)))

\* `word in prompt`: substring search
Contains(prompt, word) ==
    \E i \in 0..(Len(prompt) - Len(word)) :
        SubSeq(prompt, i + 1, i + Len(word)) = word

AnyIn(words, prompt) == \E k \in 1..Len(words) : Contains(prompt, words[k])

\* preprocess_prompt without its content filter
PreprocessPromptNoFilter(prompt) ==
    [status |-> "ok",
     prompt |-> Join(Split([k \in 1..Len(prompt) |-> Lower(prompt[k])], <<>>))]

\* preprocess_prompt: strip, lower, collapse blanks, then the banned words
PreprocessPrompt(prompt) ==
    LET cleaned == Join(Split([k \in 1..Len(prompt) |-> Lower(prompt[k])], <<>>))
    IN  IF AnyIn(BannedWords, cleaned)
        THEN [status |-> "ValueError", prompt |-> cleaned]
        ELSE [status |-> "ok", prompt |-> cleaned]

\* _extract_shape_type with the cylinder words tried before the sphere words
ExtractShapeTypeCylinderFirst(prompt) ==
    IF AnyIn(CylinderWords, prompt) THEN "cylinder"
    ELSE IF AnyIn(SphereWords, prompt) THEN "sphere"
    ELSE IF AnyIn(PyramidWords, prompt) THEN "pyramid"
    ELSE "cube"

\* DemoText3DModel._extract_shape_type
ExtractShapeType(prompt) ==
    IF AnyIn(SphereWords, prompt) THEN "sphere"
    ELSE IF AnyIn(CylinderWords, prompt) THEN "cylinder"
    ELSE IF AnyIn(PyramidWords, prompt) THEN "pyramid"
    ELSE "cube"

\* _extract_size: 0.5, 2.0 or 1.0, in units of resolution r
ExtractSize(prompt, r) ==
    IF AnyIn(SmallWords, prompt) THEN r \div 2
    ELSE IF AnyIn(LargeWords, prompt) THEN 2 * r
    ELSE r

\* DemoText3DModel.generate_3d
DemoGenerate3D(prompt, r) ==
    LET cleaned == PreprocessPrompt(prompt)
    IN  IF cleaned.status # "ok" THEN [status |-> cleaned.status]
        ELSE
        LET shape_type == ExtractShapeType(cleaned.prompt)
            size == ExtractSize(cleaned.prompt, r)
            mesh == CreateShape(shape_type, size)
            result == PostprocessGeometry(mesh.vertices, mesh.faces)
        IN  IF result.status # "ok" THEN result
            ELSE [result EXCEPT !.metadata =
                    @ @@ [shape_type |-> shape_type,
                          generation_method |-> "demo"]]

-----------------------------------------------------------------------------
(* ModelManager                                                            *)

ModelNames == {"demo", "point-e"}

\* DemoText3DModel(): always available, constructed loaded
DemoModel == [kind |-> "demo", available |-> TRUE, is_loaded |-> TRUE]

\* ModelManager.__init__ / _load_default_models: only "demo" is registered
DefaultModels == [n \in {"demo"} |-> DemoModel]

\* a generator that reports itself unavailable: BaseText3DModel.__init__
\* leaves is_loaded False
UnavailableModel == [kind |-> "stub", available |-> FALSE, is_loaded |-> FALSE]

\* register_model with an existing entry winning over the new one
RegisterModelFirstWins(ms, name, model) == ms @@ (name :> model)

\* ModelManager.register_model: self._models[name] = model
RegisterModel(ms, name, model) == (name :> model) @@ ms

\* ModelManager.get_model: self._models.get(name)
GetModel(ms, name) ==
    IF name \in DOMAIN ms THEN [status |-> "ok", model |-> ms[name]]
    ELSE [status |-> "None"]

\* unload_model dropping the entry from the registry
UnloadModelRemovesEntry(ms, name) == [n \in (DOMAIN ms) \ {name} |-> ms[n]]

\* ModelManager.unload_model: is_loaded = False on a registered model
UnloadModel(ms, name) ==
    IF name \in DOMAIN ms THEN [ms EXCEPT ![name].is_loaded = FALSE] ELSE ms

\* the loop of unload_all_models over the names still to unload
RECURSIVE UnloadEach(_, _)
UnloadEach(ms, names) ==
    IF names = {} THEN ms
    ELSE LET name == CHOOSE n \in names : TRUE
         IN  UnloadEach(UnloadModel(ms, name), names \ {name})

\* ModelManager.unload_all_models
UnloadAllModels(ms) == UnloadEach(ms, DOMAIN ms)

\* generate_3d without its is_available() test
ManagerGenerate3DUnchecked(ms, model_name, prompt, r) ==
    IF model_name \notin DOMAIN ms
    THEN [result |-> [status |-> "ModelNotFound"], models |-> ms]
    ELSE
    LET loaded == [ms EXCEPT ![model_name].is_loaded = TRUE]
        result == DemoGenerate3D(prompt, r)
    IN  [result |-> IF result.status # "ok" THEN result
                    ELSE [result EXCEPT !.metadata =
                            @ @@ [model_used |-> model_name,
                                  prompt |-> prompt,
                                  generation_params |-> <<>>]],
         models |-> loaded]

\* ModelManager.generate_3d: [result, models]; loading the model is the
\* only change it makes to the registry
ManagerGenerate3D(ms, model_name, prompt, r) ==
    IF model_name \notin DOMAIN ms
    THEN [result |-> [status |-> "ModelNotFound"], models |-> ms]
    ELSE IF ~ms[model_name].available
    THEN [result |-> [status |-> "ModelNotAvailable"], models |-> ms]
    ELSE
    LET loaded == [ms EXCEPT ![model_name].is_loaded = TRUE]
        result == DemoGenerate3D(prompt, r)
    IN  [result |-> IF result.status # "ok" THEN result
                    ELSE [result EXCEPT !.metadata =
                            @ @@ [model_used |-> model_name,
                                  prompt |-> prompt,
                                  generation_params |-> <<>>]],
         models |-> loaded]

-----------------------------------------------------------------------------
(* State machines.  Each specification is one caller: it holds a pair of  *)
(* arrays and applies the operations of one component to them.            *)

NoArg == [none |-> TRUE]
NoOut == [status |-> "none"]
NoReport == [raised |-> FALSE, none |-> TRUE]
EmptyN3 == Arr(2, 3, <<>>)

\* the job layer before any request: no job, no task, no connection
ApiIdle ==
    /\ generation_jobs = <<>>
    /\ tasks = <<>>
    /\ active_connections = <<>>

\* the prompts: two words of the vocabulary joined by a blank
Prompts == {Join(<<w1, w2>>) : w1 \in Vocabulary, w2 \in Vocabulary}

\* ---- generation: ModelManager.generate_3d, then validate_mesh on the result

InitGen ==
    /\ res = GenRes
    /\ vertices = EmptyN3
    /\ faces = EmptyN3
    /\ models = DefaultModels
    /\ op = "init"
    /\ arg = NoArg
    /\ out = NoOut
    /\ report = NoReport
    /\ ApiIdle

Generate(model_name, prompt) ==
    /\ op = "init"
    /\ \E g \in {ManagerGenerate3D(models, model_name, prompt, res)} :
           /\ models' = g.models
           /\ out' = g.result
           /\ vertices' = IF g.result.status = "ok" THEN g.result.vertices
                          ELSE vertices
           /\ faces' = IF g.result.status = "ok" THEN g.result.faces ELSE faces
    /\ op' = "generate"
    /\ arg' = [model_name |-> model_name, prompt |-> prompt]
    /\ UNCHANGED <<api, res, report>>

\* test_generation: validate what generate returned
ValidateGenerated(topo) ==
    /\ op = "generate"
    /\ out.status = "ok"
    /\ report' = ValidateMesh(vertices, faces, topo)
    /\ op' = "validate"
    /\ UNCHANGED <<api, res, vertices, faces, models, arg, out>>

NextGen ==
    \/ \E n \in ModelNames, p \in Prompts : Generate(n, p)
    \/ \E t \in TopoOutcomes : ValidateGenerated(t)

SpecGen == InitGen /\ [][NextGen]_vars

\* ---- validation: validate_mesh on arrays of any rank and column count

Take(row, c) == SubSeq(row, 1, c)

VertexRowPool(c) == {Take(row, c) : row \in {<<0, 0, 0, 0>>, <<2, 1, 1, 0>>}}

FaceRowPool(c) ==
    {Take(row, c) : row \in {<<0, 1, 0, 0>>, <<0, 1, 2, 0>>, <<0, -1, 1, 0>>}}

ShapedVertexArrays ==
    {Scalar(0)}
    \cup {Arr(1, 0, rows) : rows \in SeqUpTo({0, 1}, MaxRows)}
    \cup UNION {{Arr(2, c, rows) : rows \in SeqUpTo(VertexRowPool(c), MaxRows)} :
                    c \in {2, 3, 4}}

ShapedFaceArrays ==
    {Scalar(i) : i \in {0, 2}}
    \cup {Arr(1, 0, rows) : rows \in SeqUpTo({0, 2, -1}, MaxRows)}
    \cup UNION {{Arr(2, c, rows) : rows \in SeqUpTo(FaceRowPool(c), MaxRows)} :
                    c \in {2, 3, 4}}

InitValidate ==
    /\ res = FineRes
    /\ vertices \in ShapedVertexArrays
    /\ faces \in ShapedFaceArrays
    /\ models = DefaultModels
    /\ op = "init"
    /\ arg = NoArg
    /\ out = NoOut
    /\ report = NoReport
    /\ ApiIdle

Validate(topo) ==
    /\ op = "init"
    /\ report' = ValidateMesh(vertices, faces, topo)
    /\ op' = "validate"
    /\ arg' = [topo |-> topo]
    /\ UNCHANGED <<api, res, vertices, faces, models, out>>

NextValidate == \E t \in TopoOutcomes : Validate(t)

SpecValidate == InitValidate /\ [][NextValidate]_vars

\* ---- welding: _remove_duplicate_vertices, applied once and once again

\* points on a line, 1 unit apart, near the origin and near 2.0
WeldPoints ==
    { <<0, 0, 0>>, <<1, 0, 0>>, <<2, 0, 0>>,
      <<200000, 0, 0>>, <<200001, 0, 0>> }

WeldFaces == { <<0, 1, 0>>, <<0, 1, 2>>, <<2, 1, 0>>, <<0, 1, 3>> }

Tolerances == {0, 1}

InitWeld ==
    /\ res = FineRes
    /\ vertices \in {Arr(2, 3, rows) : rows \in SeqUpTo(WeldPoints, MaxVerts)}
    /\ faces \in {Arr(2, 3, rows) : rows \in SeqUpTo(WeldFaces, MaxFaces)}
    /\ models = DefaultModels
    /\ op = "init"
    /\ arg = NoArg
    /\ out = NoOut
    /\ report = NoReport
    /\ ApiIdle

\* the caller replaces its arrays by the welded ones
Weld(tolerance) ==
    /\ \/ op = "init"
       \/ op = "weld" /\ arg.pass = 1 /\ arg.tolerance = tolerance
    /\ \E w \in {RemoveDuplicateVertices(vertices, faces, tolerance)} :
           /\ out' = w
           /\ vertices' = w.vertices
           /\ faces' = w.faces
    /\ op' = "weld"
    /\ arg' = [tolerance |-> tolerance,
               pass |-> IF op = "init" THEN 1 ELSE 2,
               n_input |-> IF op = "init" THEN NRows(vertices) ELSE arg.n_input,
               in_vertices |-> vertices,
               in_faces |-> faces]
    /\ UNCHANGED <<api, res, models, report>>

NextWeld == \E t \in Tolerances : Weld(t)

SpecWeld == InitWeld /\ [][NextWeld]_vars

\* ---- faces: degenerate-face removal and the estimators

\* three points on a line and one off it
FacePoints == << <<1, 0, 1>>, <<2, 0, 1>>, <<3, 0, 1>>, <<1, 1, 2>> >>

\* the rows of seq at the positions in S, from position k on, in order
RECURSIVE Pick(_, _, _)
Pick(seq, S, k) ==
    IF k > Len(seq) THEN <<>>
    ELSE (IF k \in S THEN <<seq[k]>> ELSE <<>>) \o Pick(seq, S, k + 1)

FacePool ==
    { <<0, 1, 2>>, <<0, 0, 1>>, <<0, 1, 3>>, <<0, 2, 3>>, <<3, 2, 0>>,
      <<0, 1, -1>> }

\* one zero-area triangle of three colinear points and two valid triangles
ColinearExample ==
    [vertices |-> Arr(2, 3, FacePoints),
     faces |-> Arr(2, 3, << <<0, 1, 2>>, <<0, 2, 3>>, <<3, 2, 0>> >>)]

InitFaces ==
    /\ res = FineRes
    /\ \E m \in {ColinearExample} \cup
                {[vertices |-> Arr(2, 3, Pick(FacePoints, S, 1)),
                  faces |-> Arr(2, 3, frows)] :
                    S \in SUBSET (1..Len(FacePoints)),
                    frows \in SeqUpTo(FacePool, MaxFaces)} :
           /\ vertices = m.vertices
           /\ faces = m.faces
    /\ models = DefaultModels
    /\ op = "init"
    /\ arg = NoArg
    /\ out = NoOut
    /\ report = NoReport
    /\ ApiIdle

RemoveDegenerate ==
    /\ op = "init"
    /\ out' = [faces |-> RemoveDegenerateFaces(vertices, faces, res)]
    /\ op' = "remove_degenerate_faces"
    /\ UNCHANGED <<api, res, vertices, faces, models, arg, report>>

SurfaceArea ==
    /\ op = "init"
    /\ out' = [value |-> EstimateSurfaceArea(vertices, faces)]
    /\ op' = "surface_area"
    /\ UNCHANGED <<api, res, vertices, faces, models, arg, report>>

Volume ==
    /\ op = "init"
    /\ out' = EstimateVolume(vertices, faces)
    /\ op' = "volume"
    /\ UNCHANGED <<api, res, vertices, faces, models, arg, report>>

Postprocess ==
    /\ op = "init"
    /\ out' = PostprocessGeometry(vertices, faces)
    /\ op' = "postprocess_geometry"
    /\ UNCHANGED <<api, res, vertices, faces, models, arg, report>>

NextFaces == RemoveDegenerate \/ SurfaceArea \/ Volume \/ Postprocess

SpecFaces == InitFaces /\ [][NextFaces]_vars

-----------------------------------------------------------------------------
(* Properties of generation (SpecGen)                                      *)

\* the face k (1-based) of a mesh as its three corner points
Corners(V, F, k) == [c \in 1..3 |-> V.rows[F.rows[k][c] + 1]]

\* the size the prompt of the last generate call asks for
RequestedSize == ExtractSize(PreprocessPrompt(arg.prompt).prompt, res)

\* C1: for every primitive kind and every size in {0.5, 1.0, 2.0} the
\* generator returns a vertex array of shape (N, 3) and a face array of
\* shape (M, 3) with N > 0, M > 0 and every face index i in 0 <= i < N.
C1_GeneratedMeshWellFormed ==
    (op # "init" /\ out.status = "ok") =>
        LET N == NRows(out.vertices)
            M == NRows(out.faces)
        IN  /\ IsN3(out.vertices)
            /\ \A k \in 1..N : Len(out.vertices.rows[k]) = 3
            /\ IsN3(out.faces)
            /\ \A k \in 1..M : Len(out.faces.rows[k]) = 3
            /\ N > 0
            /\ M > 0
            /\ \A k \in 1..M : \A c \in 1..3 :
                   0 <= out.faces.rows[k][c] /\ out.faces.rows[k][c] < N

\* a cylinder of size 0.5 was generated, and its faces use the last vertex
C1_Witness ==
    /\ op = "generate"
    /\ out.status = "ok"
    /\ out.metadata.shape_type = "cylinder"
    /\ RequestedSize = res \div 2
    /\ NRows(out.vertices) - 1 \in Elements(out.faces)

\* C10 as stated: every one of the 12 triangles of the generated cube has
\* its normal cross(v1 - v0, v2 - v0) pointing away from the cube's centre,
\* i.e. a positive dot product with the triangle's centroid.
C10_CubeNormalsOutward ==
    (op # "init" /\ out.status = "ok" /\ out.metadata.shape_type = "cube") =>
        /\ NRows(out.faces) = 12
        /\ \A k \in 1..NRows(out.faces) :
               LET t == Corners(out.vertices, out.faces, k)
                   normal == Cross(Sub(t[2], t[1]), Sub(t[3], t[1]))
                   centroid3 == [c \in 1..3 |-> t[1][c] + t[2][c] + t[3][c]]
               IN  Dot(normal, centroid3) > 0

-----------------------------------------------------------------------------
(* Properties of validate_mesh (SpecValidate)                              *)

CheckLabels ==
    << "Invalid vertex shape", "Invalid face shape", "No vertices found",
       "No faces found", "Face indices exceed vertex count",
       "Negative face indices found" >>

\* does the structural check with this label fail on the arrays
CheckFails(label, V, F) ==
    CASE label = "Invalid vertex shape" -> ~IsN3(V)
      [] label = "Invalid face shape" -> ~IsN3(F)
      [] label = "No vertices found" -> NRows(V) = 0
      [] label = "No faces found" -> NRows(F) = 0
      [] label = "Face indices exceed vertex count" ->
            \E i \in Elements(F) : i >= NRows(V)
      [] label = "Negative face indices found" -> \E i \in Elements(F) : i < 0

\* one entry per failing check, in the fixed order
FailingChecks(V, F) ==
    LET Fails(label) == CheckFails(label, V, F)
    IN  SelectSeq(CheckLabels, Fails)

Ranked(a) == a.ndim >= 1

-----------------------------------------------------------------------------
(* Properties of _remove_duplicate_vertices (SpecWeld)                     *)

\* every face index is one of 0..N-1
InRange(V, F) == \A i \in Elements(F) : 0 <= i /\ i < NRows(V)

\* two points no farther apart than the tolerance on every axis
WithinTolerance(a, b, tolerance) ==
    \A c \in 1..Len(a) : Abs(a[c] - b[c]) <= tolerance

\* the weld as documented: each vertex goes to the first kept vertex within
\* the tolerance of it, or is appended to the kept ones
RECURSIVE DocumentedWeld(_, _, _, _, _)
DocumentedWeld(rows, i, kept, mapping, tolerance) ==
    IF i > Len(rows) THEN [kept |-> kept, mapping |-> mapping]
    ELSE LET near == {j \in 1..Len(kept) :
                         WithinTolerance(rows[i], kept[j], tolerance)}
         IN  IF near # {}
             THEN DocumentedWeld(rows, i + 1, kept,
                      Append(mapping, (CHOOSE j \in near :
                                          \A h \in near : j <= h) - 1),
                      tolerance)
             ELSE DocumentedWeld(rows, i + 1, Append(kept, rows[i]),
                      Append(mapping, Len(kept)), tolerance)

\* C4 as stated: weld maps each vertex to the first kept vertex within
\* the tolerance of it and appends it to the kept ones otherwise; the
\* output vertices are the kept ones in first-seen order, and the faces
\* are the input faces with every index remapped, count and order unchanged.
C4_WeldWithinTolerance ==
    (op = "weld" /\ arg.pass = 1 /\ InRange(arg.in_vertices, arg.in_faces)) =>
        LET w == DocumentedWeld(arg.in_vertices.rows, 1, <<>>, <<>>,
                                arg.tolerance)
            F == arg.in_faces
        IN  /\ out.vertices.rows = w.kept
            /\ NRows(out.faces) = NRows(F)
            /\ \A k \in 1..NRows(F) : \A c \in 1..3 :
                   out.faces.rows[k][c] = w.mapping[F.rows[k][c] + 1]

\* C5: weld is idempotent: welding the output of a weld again, with the
\* same tolerance, returns that output unchanged (vertices and faces).
C5_WeldIdempotent ==
    (op = "weld" /\ arg.pass = 2) =>
        /\ out.vertices = arg.in_vertices
        /\ out.faces = arg.in_faces

\* a mesh with in-range faces lost a vertex in the first weld, kept two,
\* and was welded again
C5_Witness ==
    /\ op = "weld"
    /\ arg.pass = 2
    /\ arg.n_input > NRows(arg.in_vertices)
    /\ NRows(arg.in_vertices) >= 2
    /\ NRows(arg.in_faces) >= 1
    /\ InRange(arg.in_vertices, arg.in_faces)
    /\ out.vertices = arg.in_vertices

-----------------------------------------------------------------------------
(* Properties of _remove_degenerate_faces and the estimators (SpecFaces)   *)

Repeats(face) == Cardinality({face[c] : c \in 1..Len(face)}) < Len(face)

\* cross(v1 - v0, v2 - v0) of a face whose indices exist
FaceCross(V, face) ==
    LET t == Triple(V, face)
    IN  Cross(Sub(t[2], t[1]), Sub(t[3], t[1]))

\* degenerate as documented: a repeated index, or a triangle area
\* |cross| / 2 of at most 1e-10
DocumentedDegenerate(V, face, r) ==
    \/ Repeats(face)
    \/ NormSq(FaceCross(V, face)) <= 4 * EpsUnits(r) * EpsUnits(r)

\* C6 as stated: remove_degenerate_faces drops exactly the faces with a
\* repeated vertex index or a triangle area <= 1e-10 and returns all other
\* faces in their original order (when at least one face is kept); of one
\* colinear triangle and two valid ones it returns exactly the two valid ones.
C6_DropsAreaAtMostEps ==
    (op = "remove_degenerate_faces" /\ InRange(vertices, faces)) =>
        LET Stays(face) == ~DocumentedDegenerate(vertices, face, res)
            kept == SelectSeq(faces.rows, Stays)
        IN  /\ kept # <<>> => out.faces.rows = kept
            /\ (vertices = ColinearExample.vertices
                /\ faces = ColinearExample.faces)
                    => out.faces.rows = << <<0, 2, 3>>, <<3, 2, 0>> >>

\* C7 as stated: when every face of the input is degenerate (a repeated
\* index, or a triangle area <= 1e-10), the original face array is returned
\* unchanged; the result is empty only if the input face array is empty.
C7_AllDegenerateReturnsOriginal ==
    (op = "remove_degenerate_faces" /\ InRange(vertices, faces)) =>
        /\ (\A k \in 1..NRows(faces) :
                DocumentedDegenerate(vertices, faces.rows[k], res))
               => out.faces = faces
        /\ NRows(out.faces) = 0 => NRows(faces) = 0

\* a face is corrupt when one of its indices is outside the vertex array
Corrupt(V, face) == \E c \in 1..3 : ~IndexOK(NRows(V), face[c])

\* the sum of a per-face term over the faces that are not corrupt
RECURSIVE SumOverValid(_, _, _, _)
SumOverValid(Term(_, _), V, F, k) ==
    IF k > NRows(F) THEN 0
    ELSE (IF Corrupt(V, F.rows[k]) THEN 0 ELSE Term(V, F.rows[k]))
         + SumOverValid(Term, V, F, k + 1)

\* C8 as stated: in surface_area and in volume a face that raises an index
\* error is skipped and the loop goes on, so the result is the estimate
\* over the valid faces (not 0.0).
C8_CorruptFaceSkipped ==
    (\E k \in 1..NRows(faces) : Corrupt(vertices, faces.rows[k])) =>
        /\ op = "surface_area" =>
               out.value = SumOverValid(AreaTerm, vertices, faces, 1)
        /\ op = "volume" =>
               out.value = Abs(SumOverValid(VolumeTerm, vertices, faces, 1))

\* C9 as stated: every volume the program reports (stats.volume of
\* validate and metadata.volume_estimate of generation) is the absolute
\* value of the total signed sum over all faces, not a sum of per-face
\* absolute values: a triangle and its reversed copy give 0.
C9_VolumeIsAbsOfSignedSum ==
    InRange(vertices, faces) =>
        /\ op = "volume" =>
               out.value = Abs(SumOverValid(VolumeTerm, vertices, faces, 1))
        /\ (op = "postprocess_geometry" /\ out.status = "ok") =>
               out.metadata.volume_estimate =
                   Abs(SumOverValid(VolumeTerm, vertices, faces, 1))

-----------------------------------------------------------------------------
(* Properties of the generated primitives (SpecGen)                        *)

\* C11: the cube of size 2.0 has bounding box min = (-1,-1,-1) and
\* max = (1,1,1), and the volume estimator gives 8.0 on it: its 12 signed
\* tetrahedron terms all have the same sign.
C11_CubeBoxAndVolume ==
    (op = "validate" /\ out.status = "ok" /\ out.metadata.shape_type = "cube"
        /\ RequestedSize = 2 * res) =>
        /\ report.stats.bounding_box.min = <<-res, -res, -res>>
        /\ report.stats.bounding_box.max = <<res, res, res>>
        /\ report.stats.volume = 6 * 8 * res * res * res
        /\ EstimateVolume(vertices, faces).value = report.stats.volume
        /\ NRows(faces) = 12
        /\ \A k \in 1..NRows(faces) :
               /\ VolumeTerm(vertices, faces.rows[k]) # 0
               /\ Sign(VolumeTerm(vertices, faces.rows[k]))
                      = Sign(VolumeTerm(vertices, faces.rows[1]))

\* the big cube was generated and validated, and its volume is 8.0
C11_Witness ==
    /\ op = "validate"
    /\ out.status = "ok"
    /\ out.metadata.shape_type = "cube"
    /\ RequestedSize = 2 * res
    /\ report.stats.volume = 6 * 8 * res * res * res

\* C12: the vertex and face counts of each primitive are fixed whatever
\* the size: sphere 17 * 33 = 561 and 2 * 16 * 32 = 1024, cylinder
\* 2 + 2 * 16 = 34 and 4 * 16 = 64, cube 8 and 12, pyramid 5 and 6; and
\* validate on the generated cube reports vertex_count 8, face_count 12.
C12_FixedCounts ==
    (op # "init" /\ out.status = "ok") =>
        LET kind == out.metadata.shape_type
            counts == <<NRows(out.vertices), NRows(out.faces)>>
        IN  /\ kind = "sphere" => counts = <<561, 1024>>
            /\ kind = "cylinder" => counts = <<34, 64>>
            /\ kind = "cube" => counts = <<8, 12>>
            /\ kind = "pyramid" => counts = <<5, 6>>
            /\ kind \in {"sphere", "cylinder", "cube", "pyramid"}
            /\ (op = "validate" /\ kind = "cube") =>
                   /\ report.stats.vertex_count = 8
                   /\ report.stats.face_count = 12

\* generate("cube", 1.0), then validate: 8 vertices, 12 faces
C12_Witness ==
    /\ op = "validate"
    /\ out.status = "ok"
    /\ out.metadata.shape_type = "cube"
    /\ RequestedSize = res
    /\ report.stats.vertex_count = 8
    /\ report.stats.face_count = 12

-----------------------------------------------------------------------------
(* Further properties of validate_mesh (SpecValidate)                      *)

\* the statistics block of the report was computed
HasStats == DOMAIN report.stats # {}

\* C13 as stated: bounding_box returns a record with the four fields min,
\* max, size and center for every input: componentwise minimum and maximum,
\* size = max - min and center = (min + max) / 2 for a non-empty vertex
\* array; four zero vectors for an empty one.
C13_BoundingBoxFourFields ==
    (op = "validate" /\ HasStats) =>
        LET box == report.stats.bounding_box
            N == NRows(vertices)
        IN  /\ DOMAIN box = {"min", "max", "size", "center"}
            /\ N = 0 => \A f \in DOMAIN box : box[f] = <<0, 0, 0>>
            /\ (N > 0 /\ IsN3(vertices)) =>
                   \A c \in 1..3 :
                       /\ \A k \in 1..N : /\ box.min[c] <= vertices.rows[k][c]
                                          /\ vertices.rows[k][c] <= box.max[c]
                       /\ \E k \in 1..N : box.min[c] = vertices.rows[k][c]
                       /\ \E k \in 1..N : box.max[c] = vertices.rows[k][c]
                       /\ box.size[c] = box.max[c] - box.min[c]
                       /\ box.center[c] = box.min[c] + box.max[c]

\* C14: validate on an empty vertex array of shape (0,3) with an empty face
\* array of shape (0,3) returns is_valid = false and exactly the two errors
\* "No vertices found" and "No faces found": no shape error, no index error.
C14_EmptyMeshTwoErrors ==
    (op = "validate" /\ vertices = EmptyN3 /\ faces = EmptyN3) =>
        /\ report.is_valid = FALSE
        /\ report.errors = <<"No vertices found", "No faces found">>

\* the empty mesh was validated and the two errors are in the report
C14_Witness ==
    /\ op = "validate"
    /\ vertices = EmptyN3
    /\ faces = EmptyN3
    /\ Len(report.errors) = 2
    /\ HasStats

\* is the entry among the errors of the report
HasError(label) == \E k \in 1..Len(report.errors) : report.errors[k] = label

\* C15 as stated: for every vertex count N and every face array that
\* holds at least one index >= N, validate returns is_valid = false and
\* errors includes "Face indices exceed vertex count"; when every index
\* is < N that error is absent.
C15_IndexAtLeastNReported ==
    (op = "validate" /\ Ranked(vertices)) =>
        IF \E i \in Elements(faces) : i >= NRows(vertices)
        THEN report.is_valid = FALSE
             /\ HasError("Face indices exceed vertex count")
        ELSE ~HasError("Face indices exceed vertex count")

\* C15, amended: for every vertex array of rank >= 1 with N rows and every
\* face array of rank >= 1 that holds at least one index >= N, validate
\* returns is_valid = false and errors includes "Face indices exceed vertex
\* count"; when every index is < N that error is absent.  With a rank-0
\* vertex or face array len() raises before the index check: is_valid is
\* false and that error is absent, whatever the indices.
C15_IndexAtLeastNReportedForRanked ==
    op = "validate" =>
        IF Ranked(vertices) /\ Ranked(faces)
        THEN IF \E i \in Elements(faces) : i >= NRows(vertices)
             THEN report.is_valid = FALSE
                  /\ HasError("Face indices exceed vertex count")
             ELSE ~HasError("Face indices exceed vertex count")
        ELSE report.is_valid = FALSE
             /\ ~HasError("Face indices exceed vertex count")

\* two vertices, a face array of shape (M,3) holding the index 2, reported
C15_Witness ==
    /\ op = "validate"
    /\ IsN3(vertices)
    /\ NRows(vertices) = 2
    /\ IsN3(faces)
    /\ 2 \in Elements(faces)
    /\ \A i \in Elements(faces) : i <= 2
    /\ HasError("Face indices exceed vertex count")
    /\ report.is_valid = FALSE

\* is the entry among the warnings of the report
HasWarning(label) ==
    \E k \in 1..Len(report.warnings) : report.warnings[k] = label

\* C16: the outcome of the topology analysis never changes is_valid or
\* errors.  If the analysis raises, validate appends one "Advanced
\* validation failed" warning and stats has no is_manifold / is_watertight;
\* if it reports non-manifold or non-watertight, validate appends the
\* corresponding warning; is_valid is what the structural checks made it.
C16_TopologyIsAdvisory ==
    op = "validate" =>
        /\ \A t \in TopoOutcomes :
               /\ ValidateMesh(vertices, faces, t).is_valid = report.is_valid
               /\ ValidateMesh(vertices, faces, t).errors = report.errors
        /\ (HasStats /\ arg.topo.raised) =>
               /\ report.warnings = <<"Advanced validation failed">>
               /\ "is_manifold" \notin DOMAIN report.stats
               /\ "is_watertight" \notin DOMAIN report.stats
               /\ report.is_valid = (StructuralChecks(vertices, faces).errors = <<>>)
        /\ (HasStats /\ ~arg.topo.raised) =>
               /\ report.stats.is_manifold = arg.topo.is_manifold
               /\ report.stats.is_watertight = arg.topo.is_watertight
               /\ HasWarning("Mesh is not manifold") <=> ~arg.topo.is_manifold
               /\ HasWarning("Mesh is not watertight") <=> ~arg.topo.is_watertight
               /\ ~HasWarning("Advanced validation failed")
               /\ Len(report.warnings) <= 2
               /\ report.is_valid = (StructuralChecks(vertices, faces).errors = <<>>)

\* the analysis raised on a structurally valid mesh: one warning, still valid
C16_Witness ==
    /\ op = "validate"
    /\ arg.topo.raised
    /\ HasStats
    /\ report.is_valid = TRUE
    /\ report.warnings = <<"Advanced validation failed">>

-----------------------------------------------------------------------------
(* The registry: ModelManager with register, lookup, generate, unload      *)

\* the generators a caller registers: a fresh DemoText3DModel, or a
\* generator that is not available
Generators == {DemoModel, UnavailableModel}

RegistryPrompts == { <<"c", "u", "b", "e">>, <<"c", "o", "n", "e">> }

InitRegistry ==
    /\ res = GenRes
    /\ vertices = EmptyN3
    /\ faces = EmptyN3
    /\ models = DefaultModels
    /\ op = "init"
    /\ arg = NoArg
    /\ out = NoOut
    /\ report = NoReport
    /\ ApiIdle

Register(name, model) ==
    /\ models' = RegisterModel(models, name, model)
    /\ op' = "register"
    /\ arg' = [name |-> name, model |-> model, before |-> models]
    /\ out' = NoOut
    /\ UNCHANGED <<api, res, vertices, faces, report>>

Lookup(name) ==
    /\ out' = GetModel(models, name)
    /\ op' = "get_model"
    /\ arg' = [name |-> name, before |-> models]
    /\ UNCHANGED <<api, res, vertices, faces, models, report>>

RegistryGenerate(model_name, prompt) ==
    /\ \E g \in {ManagerGenerate3D(models, model_name, prompt, res)} :
           /\ models' = g.models
           /\ out' = g.result
    /\ op' = "generate"
    /\ arg' = [model_name |-> model_name, prompt |-> prompt, before |-> models]
    /\ UNCHANGED <<api, res, vertices, faces, report>>

Unload(name) ==
    /\ models' = UnloadModel(models, name)
    /\ op' = "unload"
    /\ arg' = [name |-> name, before |-> models]
    /\ out' = NoOut
    /\ UNCHANGED <<api, res, vertices, faces, report>>

NextRegistry ==
    \/ \E n \in ModelNames, g \in Generators : Register(n, g)
    \/ \E n \in ModelNames : Lookup(n)
    \/ \E n \in ModelNames, p \in RegistryPrompts : RegistryGenerate(n, p)
    \/ \E n \in ModelNames : Unload(n)

SpecRegistry == InitRegistry /\ [][NextRegistry]_vars

-----------------------------------------------------------------------------
(* Properties of the registry (SpecRegistry)                               *)

\* C17: generate(name, prompt) fails with NotFound when nothing is
\* registered under name and with Unavailable when the registered generator
\* reports itself unavailable; in both cases the generator is neither
\* loaded nor asked to generate, and no result is returned.
C17_NotFoundAndUnavailable ==
    op = "generate" =>
        LET name == arg.model_name
            failure == IF name \notin DOMAIN arg.before THEN "ModelNotFound"
                       ELSE IF ~arg.before[name].available
                            THEN "ModelNotAvailable"
                       ELSE "none"
        IN  IF failure # "none"
            THEN /\ out = [status |-> failure]
                 /\ models = arg.before
            ELSE out.status \notin {"ModelNotFound", "ModelNotAvailable"}

\* an unavailable generator was registered and asked to generate: it is
\* refused, and still not loaded
C17_Witness ==
    /\ op = "generate"
    /\ arg.model_name \in DOMAIN arg.before
    /\ arg.before[arg.model_name] = UnavailableModel
    /\ out.status = "ModelNotAvailable"
    /\ models[arg.model_name].is_loaded = FALSE

\* which generator an entry is: its loaded flag is the only part that
\* generate and unload change
Identity(model) == [kind |-> model.kind, available |-> model.available]

\* C18: a fresh registry contains the "demo" generator; a register call
\* puts its generator under its name, whatever was there, and leaves the
\* entries under other names unchanged; no other call replaces a generator;
\* lookup and generate resolve a name to the entry now registered under it.
C18_LastWriteWins ==
    /\ ("demo" \in DOMAIN models /\ models["demo"] = DemoModel)
    /\ [][/\ op' = "register" =>
                /\ DOMAIN models' = DOMAIN models \cup {arg'.name}
                /\ models'[arg'.name] = arg'.model
                /\ \A n \in DOMAIN models \ {arg'.name} : models'[n] = models[n]
          /\ op' # "register" =>
                /\ DOMAIN models' = DOMAIN models
                /\ \A n \in DOMAIN models :
                       Identity(models'[n]) = Identity(models[n])
          /\ op' = "get_model" =>
                IF arg'.name \in DOMAIN models
                THEN out'.status = "ok" /\ out'.model = models[arg'.name]
                ELSE out' = [status |-> "None"]
          /\ op' = "generate" =>
                (out'.status = "ok" <=>
                    /\ arg'.model_name \in DOMAIN models
                    /\ models[arg'.model_name].available)
       ]_vars

\* the unavailable generator was registered over "demo", and lookup finds it
C18_Witness ==
    /\ op = "get_model"
    /\ arg.name = "demo"
    /\ out.status = "ok"
    /\ out.model = UnavailableModel

-----------------------------------------------------------------------------
(* Properties of the demo generator's prompt handling (SpecGen)            *)

\* the word occurs in the text, letter for letter
Occurs(word, text) ==
    \E i \in 1..Len(text) :
        /\ i + Len(word) - 1 <= Len(text)
        /\ \A k \in 1..Len(word) : text[i + k - 1] = word[k]

\* one of the words occurs in the prompt of the last call, in any case
Mentions(words) ==
    LET lowered == [k \in 1..Len(arg.prompt) |-> Lower(arg.prompt[k])]
    IN  \E k \in 1..Len(words) : Occurs(words[k], lowered)

\* C19: the demo generator takes the shape of the first category, among
\* sphere-words, cylinder-words and pyramid-words, of which the prompt holds
\* a keyword, else cube; the size is 0.5 if it holds small/tiny/mini, else
\* 2.0 if it holds large/big/huge/giant, else 1.0; the mesh and
\* metadata.shape_type are those of the chosen kind, and the size is one of
\* 0.5, 1.0, 2.0.  (Keywords are found as substrings of the lower-cased
\* prompt.)
C19_KeywordPrecedence ==
    (op = "generate" /\ arg.model_name = "demo" /\ out.status = "ok") =>
        LET kind == IF Mentions(SphereWords) THEN "sphere"
                    ELSE IF Mentions(CylinderWords) THEN "cylinder"
                    ELSE IF Mentions(PyramidWords) THEN "pyramid"
                    ELSE "cube"
            size == IF Mentions(SmallWords) THEN res \div 2
                    ELSE IF Mentions(LargeWords) THEN 2 * res
                    ELSE res
        IN  /\ out.metadata.shape_type = kind
            /\ [vertices |-> out.vertices, faces |-> out.faces]
                   = CreateShape(kind, size)
            /\ RequestedSize = size
            /\ RequestedSize \in {res \div 2, res, 2 * res}

\* a prompt with a sphere word and a cylinder word gave a sphere
C19_Witness ==
    /\ op = "generate"
    /\ arg.model_name = "demo"
    /\ out.status = "ok"
    /\ Mentions(SphereWords)
    /\ Mentions(CylinderWords)
    /\ out.metadata.shape_type = "sphere"

\* C20 as stated: generation with the demo generator succeeds for every
\* prompt string; a prompt with no recognised keyword gives the defaults.
C20_EveryPromptSucceeds ==
    (op = "generate" /\ arg.model_name = "demo") =>
        /\ out.status = "ok"
        /\ (~Mentions(SphereWords) /\ ~Mentions(CylinderWords)
            /\ ~Mentions(PyramidWords) /\ ~Mentions(SmallWords)
            /\ ~Mentions(LargeWords)) =>
               /\ out.metadata.shape_type = "cube"
               /\ RequestedSize = res

\* C20, amended: generation with the demo generator succeeds for every
\* prompt string that holds none of the banned words explicit,
\* inappropriate, nsfw (as a substring, in any case), and fails with a
\* ValueError for a prompt that holds one; a prompt that passes and has no
\* recognised keyword gives the defaults (cube, size 1.0).
C20_EveryCleanPromptSucceeds ==
    (op = "generate" /\ arg.model_name = "demo") =>
        IF Mentions(BannedWords)
        THEN out = [status |-> "ValueError"]
        ELSE /\ out.status = "ok"
             /\ (~Mentions(SphereWords) /\ ~Mentions(CylinderWords)
                 /\ ~Mentions(PyramidWords) /\ ~Mentions(SmallWords)
                 /\ ~Mentions(LargeWords)) =>
                    /\ out.metadata.shape_type = "cube"
                    /\ [vertices |-> out.vertices, faces |-> out.faces]
                           = CreateCube(res)

\* a prompt of blanks only gave the default cube of size 1.0
C20_Witness ==
    /\ op = "generate"
    /\ arg.model_name = "demo"
    /\ arg.prompt # <<>>
    /\ \A k \in 1..Len(arg.prompt) : arg.prompt[k] = " "
    /\ out.status = "ok"
    /\ out.metadata.shape_type = "cube"
    /\ RequestedSize = res

-----------------------------------------------------------------------------
(* The primitive generators called directly, with any size                 *)

PrimitiveShapes == {"cube", "sphere", "cylinder", "pyramid"}

\* the size argument: negative, zero and positive multiples of half a unit
PrimitiveSizes(r) == {-2 * r, -r, -(r \div 2), 0, r \div 2, r, 2 * r}

InitPrimitive ==
    /\ res = GenRes
    /\ vertices = EmptyN3
    /\ faces = EmptyN3
    /\ models = DefaultModels
    /\ op = "init"
    /\ arg = NoArg
    /\ out = NoOut
    /\ report = NoReport
    /\ ApiIdle

\* _create_cube / _create_sphere / _create_cylinder / _create_pyramid: no
\* statement of theirs tests size
CreatePrimitive(shape_type, size) ==
    /\ op = "init"
    /\ \E m \in {CreateShape(shape_type, size)} :
           /\ vertices' = m.vertices
           /\ faces' = m.faces
           /\ out' = [status |-> "ok", vertices |-> m.vertices, faces |-> m.faces]
    /\ op' = "create"
    /\ arg' = [shape_type |-> shape_type, size |-> size]
    /\ UNCHANGED <<api, res, models, report>>

\* validate_mesh on what the generator returned
ValidatePrimitive(topo) ==
    /\ op = "create"
    /\ report' = ValidateMesh(vertices, faces, topo)
    /\ op' = "validate"
    /\ UNCHANGED <<api, res, vertices, faces, models, arg, out>>

NextPrimitive ==
    \/ \E k \in PrimitiveShapes, s \in PrimitiveSizes(res) : CreatePrimitive(k, s)
    \/ \E t \in TopoOutcomes : ValidatePrimitive(t)

SpecPrimitive == InitPrimitive /\ [][NextPrimitive]_vars

\* the point reflection of a row through the origin
Neg(row) == [c \in 1..Len(row) |-> -row[c]]

-----------------------------------------------------------------------------
(* Metadata of a generation against the statistics of validation (SpecGen) *)

(* C22: for every result of generate with the demo generator (all four     *)
(* shapes, all three sizes) the metadata agrees with the statistics that   *)
(* validate computes for the returned arrays: vertex_count, face_count,    *)
(* bounding_box min / max / size, and volume_estimate = stats.volume.      *)
C22_MetadataAgreesWithStats ==
    (op = "validate" /\ out.status = "ok") =>
        /\ HasStats
        /\ out.metadata.vertex_count = report.stats.vertex_count
        /\ out.metadata.face_count = report.stats.face_count
        /\ out.metadata.bounding_box.min = report.stats.bounding_box.min
        /\ out.metadata.bounding_box.max = report.stats.bounding_box.max
        /\ out.metadata.bounding_box.size = report.stats.bounding_box.size
        /\ out.metadata.volume_estimate = report.stats.volume

\* a sphere of size 2.0 was generated and validated, and its volume is not 0
C22_Witness ==
    /\ op = "validate"
    /\ out.status = "ok"
    /\ out.metadata.shape_type = "sphere"
    /\ RequestedSize = 2 * res
    /\ HasStats
    /\ report.stats.volume > 0
    /\ report.stats.vertex_count = (LatSegments + 1) * (LonSegments + 1)

-----------------------------------------------------------------------------
(* Callers of one ModelManager and of MeshProcessor, in any order          *)

\* the arrays a caller holds: a triangle, a triangle with a repeated vertex
\* and an unused one, and empty arrays
CallMeshes ==
    { [vertices |-> Arr(2, 3, << <<0, 0, 0>>, <<64, 0, 0>>, <<0, 64, 0>> >>),
       faces |-> Arr(2, 3, << <<0, 1, 2>> >>)],
      [vertices |-> Arr(2, 3, << <<0, 0, 0>>, <<0, 0, 0>>, <<0, 64, 0>> >>),
       faces |-> Arr(2, 3, << <<0, 1, 2>>, <<2, 1, 0>> >>)],
      [vertices |-> EmptyN3, faces |-> EmptyN3] }

InitCalls ==
    /\ res = GenRes
    /\ \E m \in CallMeshes : vertices = m.vertices /\ faces = m.faces
    /\ models = DefaultModels
    /\ op = "init"
    /\ arg = NoArg
    /\ out = NoOut
    /\ report = NoReport
    /\ ApiIdle

\* what the registry and the caller's arrays were when the call started
Before == [models |-> models, vertices |-> vertices, faces |-> faces]

\* ModelManager.generate_3d: the result goes to the caller, the caller's
\* arrays are not arguments of the call
CallGenerate(model_name, prompt) ==
    /\ \E g \in {ManagerGenerate3D(models, model_name, prompt, res)} :
           /\ models' = g.models
           /\ out' = g.result
    /\ op' = "generate"
    /\ arg' = [model_name |-> model_name, prompt |-> prompt, before |-> Before]
    /\ UNCHANGED <<api, res, vertices, faces, report>>

\* MeshProcessor.validate_mesh: reads its arrays, writes none of them
CallValidate(topo) ==
    /\ report' = ValidateMesh(vertices, faces, topo)
    /\ op' = "validate"
    /\ arg' = [topo |-> topo, before |-> Before]
    /\ UNCHANGED <<api, res, vertices, faces, models, out>>

\* MeshProcessor._remove_duplicate_vertices: builds new arrays, the
\* caller's arrays are read only
CallWeld(tolerance) ==
    /\ out' = RemoveDuplicateVertices(vertices, faces, tolerance)
    /\ op' = "weld"
    /\ arg' = [tolerance |-> tolerance, before |-> Before]
    /\ UNCHANGED <<api, res, vertices, faces, models, report>>

CallUnload(name) ==
    /\ models' = UnloadModel(models, name)
    /\ op' = "unload"
    /\ arg' = [name |-> name, before |-> Before]
    /\ out' = NoOut
    /\ UNCHANGED <<api, res, vertices, faces, report>>

CallUnloadAll ==
    /\ models' = UnloadAllModels(models)
    /\ op' = "unload_all"
    /\ arg' = [before |-> Before]
    /\ out' = NoOut
    /\ UNCHANGED <<api, res, vertices, faces, report>>

NextCalls ==
    \/ \E n \in ModelNames, p \in RegistryPrompts : CallGenerate(n, p)
    \/ \E t \in TopoOutcomes : CallValidate(t)
    \/ \E t \in Tolerances : CallWeld(t)
    \/ \E n \in ModelNames : CallUnload(n)
    \/ CallUnloadAll

SpecCalls == InitCalls /\ [][NextCalls]_vars

(* C23: no generate, validate or weld_vertices call changes state that a  *)
(* later call can observe: the registry's entries, each registered         *)
(* model's loaded flag and the caller's input arrays are the same after    *)
(* the call as before it.                                                  *)
C23_CallsChangeNothing ==
    op \in {"generate", "validate", "weld"} =>
        /\ models = arg.before.models
        /\ vertices = arg.before.vertices
        /\ faces = arg.before.faces

\* the registry after generate_3d has made sure the named model is loaded
EnsureLoaded(ms, name) ==
    IF name \in DOMAIN ms /\ ms[name].available
    THEN [ms EXCEPT ![name].is_loaded = TRUE]
    ELSE ms

(* C23, as the calls behave: validate and weld_vertices change nothing;    *)
(* generate changes exactly one thing, the loaded flag of the model it     *)
(* names, which it sets when the model is registered and available (it     *)
(* loads a model that was unloaded).  The names registered and the         *)
(* caller's arrays are never changed, and the result of each call is the   *)
(* result a fresh ModelManager / the same arrays give for the same         *)
(* arguments, whatever unload_model / unload_all_models calls ran before.  *)
C23_GenerateOnlyLoadsTheModel ==
    /\ op \in {"generate", "validate", "weld"} =>
           /\ DOMAIN models = DOMAIN arg.before.models
           /\ vertices = arg.before.vertices
           /\ faces = arg.before.faces
    /\ op \in {"validate", "weld"} => models = arg.before.models
    /\ op = "generate" =>
           /\ models = EnsureLoaded(arg.before.models, arg.model_name)
           /\ out = ManagerGenerate3D(DefaultModels, arg.model_name,
                                      arg.prompt, res).result
    /\ op = "validate" =>
           report = ValidateMesh(arg.before.vertices, arg.before.faces, arg.topo)
    /\ op = "weld" =>
           out = RemoveDuplicateVertices(arg.before.vertices, arg.before.faces,
                                         arg.tolerance)

\* generate on the demo model after it was unloaded: it succeeds and the
\* model is loaded again
C23_Witness ==
    /\ op = "generate"
    /\ arg.model_name = "demo"
    /\ ~arg.before.models["demo"].is_loaded
    /\ out.status = "ok"
    /\ models["demo"].is_loaded

-----------------------------------------------------------------------------
(* The verdict of a report (SpecValidate)                                  *)

-----------------------------------------------------------------------------
(* The invariants of a weld (SpecWeld)                                     *)

\* the positions (1-based) of the input vertices that were appended to the
\* kept ones: the first input vertex of each output index
FirstOfItsIndex(mapping, i) == \A h \in 1..(i - 1) : mapping[h] # mapping[i]

(* C25 as stated: after weld_vertices succeeds, no output vertex is within *)
(* tolerance of an earlier output vertex, every input vertex is within     *)
(* tolerance of the output vertex it was mapped to, the mapping from input *)
(* to output indices is onto the output vertices, and a vertex that is     *)
(* near a merged vertex but not within tolerance of any kept vertex is     *)
(* kept as a separate vertex.                                              *)
C25_WeldInvariants ==
    (op = "weld" /\ arg.pass = 1 /\ InRange(arg.in_vertices, arg.in_faces)) =>
        LET rows == arg.in_vertices.rows
            tolerance == arg.tolerance
            scan == WeldScan(rows, 1, <<>>, <<>>, tolerance)
            mapping == scan.vertex_mapping
            kept == out.vertices.rows
        IN  /\ kept = scan.unique_vertices
            /\ \A k \in 1..Len(kept) : \A j \in 1..(k - 1) :
                   ~WithinTolerance(kept[k], kept[j], tolerance)
            /\ \A i \in 1..Len(rows) :
                   WithinTolerance(rows[i], kept[mapping[i] + 1], tolerance)
            /\ {mapping[i] : i \in 1..Len(rows)} = 0..(Len(kept) - 1)
            /\ \A i \in 1..Len(rows) :
                   (\A h \in 1..(i - 1) :
                        FirstOfItsIndex(mapping, h) =>
                            ~WithinTolerance(rows[i], rows[h], tolerance))
                   => /\ FirstOfItsIndex(mapping, i)
                      /\ kept[mapping[i] + 1] = rows[i]

-----------------------------------------------------------------------------
(* Repair: repair_mesh, applied once and once again                        *)

\* points 1e-6 apart, a point off their line, and points 1e-5 apart far
\* from the origin
RepairPoints ==
    { <<0, 0, 0>>, <<1, 0, 0>>, <<0, 40, 0>>,
      <<2000000, 0, 0>>, <<2000010, 0, 0>> }

RepairFaces == { <<0, 1, 2>>, <<0, 0, 1>>, <<2, 1, 0>>, <<0, 1, 3>> }

\* a mesh with a duplicated vertex, a sliver, a colinear triangle and two
\* triangles of some area
RepairExample ==
    [vertices |-> Arr(2, 3, << <<0, 0, 0>>, <<40, 0, 0>>, <<0, 40, 0>>,
                               <<1, 0, 0>>, <<20, 0, 0>>, <<0, 2, 0>> >>),
     faces |-> Arr(2, 3, << <<0, 1, 2>>, <<3, 1, 2>>, <<0, 4, 1>>,
                            <<0, 1, 5>>, <<0, 3, 2>> >>)]

InitRepair ==
    /\ res = RepairRes
    /\ \E m \in {RepairExample} \cup
                {[vertices |-> Arr(2, 3, vrows), faces |-> Arr(2, 3, frows)] :
                    vrows \in SeqUpTo(RepairPoints, MaxVerts),
                    frows \in SeqUpTo(RepairFaces, MaxFaces)} :
           /\ vertices = m.vertices
           /\ faces = m.faces
    /\ models = DefaultModels
    /\ op = "init"
    /\ arg = NoArg
    /\ out = NoOut
    /\ report = NoReport
    /\ ApiIdle

\* the caller replaces its arrays by the repaired ones
Repair ==
    /\ \/ op = "init"
       \/ op = "repair" /\ arg.pass = 1
    /\ \E m \in {RepairMesh(vertices, faces, res)} :
           /\ out' = [status |-> "ok", vertices |-> m.vertices, faces |-> m.faces]
           /\ vertices' = m.vertices
           /\ faces' = m.faces
    /\ op' = "repair"
    /\ arg' = [pass |-> IF op = "init" THEN 1 ELSE 2,
               first_vertices |-> IF op = "init" THEN vertices
                                  ELSE arg.first_vertices,
               first_faces |-> IF op = "init" THEN faces ELSE arg.first_faces,
               in_vertices |-> vertices,
               in_faces |-> faces]
    /\ UNCHANGED <<api, res, models, report>>

NextRepair == Repair

SpecRepair == InitRepair /\ [][NextRepair]_vars

\* the Mesh invariants of the claim: rows, faces, and every index in [0, N)
WellFormed(V, F) == NRows(V) > 0 /\ NRows(F) > 0 /\ InRange(V, F)

(* C26: repair_mesh preserves the Mesh invariants and never raises: for    *)
(* every input with a non-empty vertex array, a non-empty face array and   *)
(* all face indices in [0, N), the returned (vertices', faces') has a      *)
(* non-empty face array whose every index is in [0, len(vertices')), and   *)
(* applying repair_mesh to its own output returns that output unchanged.   *)
C26_RepairPreservesMesh ==
    /\ (op = "repair" /\ arg.pass = 1
            /\ WellFormed(arg.in_vertices, arg.in_faces)) =>
           /\ out.status = "ok"
           /\ IsN3(out.vertices)
           /\ IsN3(out.faces)
           /\ NRows(out.faces) > 0
           /\ InRange(out.vertices, out.faces)
    /\ (op = "repair" /\ arg.pass = 2
            /\ WellFormed(arg.first_vertices, arg.first_faces)) =>
           /\ out.status = "ok"
           /\ out.vertices = arg.in_vertices
           /\ out.faces = arg.in_faces

\* the example was repaired twice: the first pass merged a vertex and
\* dropped faces but not all of them
C26_Witness ==
    /\ op = "repair"
    /\ arg.pass = 2
    /\ arg.first_vertices = RepairExample.vertices
    /\ NRows(arg.in_vertices) = NRows(RepairExample.vertices) - 1
    /\ NRows(arg.in_faces) > 0
    /\ NRows(arg.in_faces) < NRows(RepairExample.faces)
    /\ InRange(arg.in_vertices, arg.in_faces)
    /\ out.faces = arg.in_faces

-----------------------------------------------------------------------------
(* The job layer: api/main.py.  One event loop runs the HTTP handlers, the *)
(* WebSocket handlers and one process_generation task per job.  A task     *)
(* gives way to the others only where it is suspended: inside an           *)
(* `await connection.send_text(message)` of a broadcast, and inside        *)
(* `await asyncio.sleep(1)`; between two such points it runs alone.        *)

MaxJobs == 1
MaxSockets == 2

\* uuid4 job ids and the WebSocket objects, numbered
JobIds == 1..MaxJobs
Sockets == 1..MaxSockets

\* `request.model_type not in ["point-e", "shap-e", "demo"]`
AcceptedModelTypes == {"point-e", "shap-e", "demo"}

\* the model_type of a request body; Omitted is a body without the field
Omitted == "omitted"
BodyModelTypes == {Omitted, "demo", "custom"}

\* GenerationRequest: model_type defaults to "point-e"
GenerationRequest(prompt, model_type) ==
    [prompt |-> prompt,
     model_type |-> IF model_type = Omitted THEN "point-e" ELSE model_type]

JobPrompts == { <<"c", "u", "b", "e">>, <<"n", "s", "f", "w">> }

\* `for progress in [25, 50, 75, 90]`
ProgressSteps == <<25, 50, 75, 90>>

\* a key that the job's dict does not hold
Absent == "absent"

\* the dict stored by generate_3d_model
NewJob(job_id, request) ==
    [id |-> job_id, prompt |-> request.prompt,
     model_type |-> request.model_type, status |-> "queued", progress |-> 0,
     file_path |-> Absent, error |-> Absent]

\* the task made by asyncio.create_task.  pc is where it is;
\* site, index and target are the broadcast it is in, the position of its
\* loop and the socket it is sending to; delivered, present and returned
\* record, for the last broadcast, the sockets it has sent to, the sockets
\* that have been in active_connections ever since it began, and whether
\* it has returned
NewTask(request) ==
    [pc |-> "created", request |-> request, k |-> 0, site |-> "none",
     index |-> 0, target |-> 0, delivered |-> <<>>, present |-> {},
     returned |-> FALSE]

\* the call of manager.broadcast at a site of process_generation: the
\* loop is at the head of the list
BeginBroadcast(task, site, connections) ==
    [task EXCEPT !.pc = "broadcast", !.site = site, !.index = 0,
                 !.delivered = <<>>,
                 !.present = {connections[i] : i \in 1..Len(connections)},
                 !.returned = FALSE]

\* the try block whose handler catches an exception raised at a site:
\* the inner one (line 170), the outer one (line 150), or none
Handler(site) ==
    IF site \in {"generate", "completed"} THEN "inner"
    ELSE IF site \in {"processing", "progress", "failed_inner"} THEN "outer"
    ELSE "none"

\* the registry as get_model_manager makes it, and after a generation
ManagerStates == {DefaultModels, EnsureLoaded(DefaultModels, "demo")}

\* model_manager.generate_3d(model_type, prompt) for the calls that
\* create_ai_generated_model can make of it
JobGenerate3D ==
    [ms \in ManagerStates, model_type \in AcceptedModelTypes,
     prompt \in JobPrompts |-> ManagerGenerate3D(ms, model_type, prompt, GenRes)]

\* create_ai_generated_model: generate_3d, then save_mesh (saved is what
\* the file system lets it do); validate_mesh only feeds the log
CreateAiGeneratedModel(ms, prompt, job_id, model_type, saved) ==
    LET g == JobGenerate3D[ms, model_type, prompt]
    IN  IF g.result.status # "ok"
        THEN [status |-> "raised", error |-> g.result.status, models |-> g.models]
        ELSE IF ~saved
        THEN [status |-> "raised", error |-> "SaveFailed", models |-> g.models]
        ELSE [status |-> "ok", models |-> g.models,
              output_file |-> <<job_id, model_type, g.result.metadata.shape_type>>]

(* process_generation between two points where it is suspended.  st is    *)
(* [job, task, models]; connections is active_connections, which nothing   *)
(* changes while the task runs; made is what create_ai_generated_model     *)
(* does if the task comes to call it.  Where the task is running, pc is    *)
(* "broadcast" (the loop of broadcast takes its next element) or           *)
(* "generate" (the inner try begins).                                      *)

Suspended == {"created", "sending", "sleep", "done", "crashed"}

\* an exception that no handler of process_generation catches
RaisedUncaught(st, site, error, connections) ==
    [st EXCEPT !.task.pc = "crashed"]

\* an exception raised at a site: the handler marks the job failed and
\* broadcasts the failure; raised in the outer handler it ends the task
Raised(st, site, error, connections) ==
    IF Handler(site) = "none"
    THEN [st EXCEPT !.task.pc = "crashed"]
    ELSE [st EXCEPT !.job.status = "failed",
                    !.job.progress = 0,
                    !.job.error = error,
                    !.task = BeginBroadcast(@,
                                 IF Handler(site) = "inner" THEN "failed_inner"
                                                            ELSE "failed_outer",
                                 connections)]

\* the loop of broadcast at its position: it sends to the socket there, or
\* it has reached the end of the list, broadcast returns and
\* process_generation goes on after the call
NextConnection(st, connections) ==
    IF st.task.index < Len(connections)
    THEN [st EXCEPT !.task.pc = "sending",
                    !.task.target = connections[st.task.index + 1]]
    ELSE IF st.task.site = "processing"
    THEN [st EXCEPT !.task.returned = TRUE, !.task.pc = "sleep", !.task.k = 1]
    ELSE IF st.task.site = "progress" /\ st.task.k < Len(ProgressSteps)
    THEN [st EXCEPT !.task.returned = TRUE, !.task.pc = "sleep",
                    !.task.k = @ + 1]
    ELSE IF st.task.site = "progress"
    THEN [st EXCEPT !.task.returned = TRUE, !.task.pc = "generate"]
    ELSE [st EXCEPT !.task.returned = TRUE, !.task.pc = "done"]

\* the inner try: create_ai_generated_model, then "completed"
InnerTry(st, connections, made) ==
    IF made.status = "ok"
    THEN [st EXCEPT !.models = made.models,
                    !.job.status = "completed",
                    !.job.progress = 100,
                    !.job.file_path = made.output_file,
                    !.task = BeginBroadcast(@, "completed", connections)]
    ELSE Raised([st EXCEPT !.models = made.models], "generate", made.error,
                connections)

\* one step of a running task; a suspended task stays as it is
Step(st, connections, made) ==
    IF st.task.pc = "broadcast" THEN NextConnection(st, connections)
    ELSE IF st.task.pc = "generate" THEN InnerTry(st, connections, made)
    ELSE st

InitJobs ==
    /\ res = GenRes
    /\ vertices = EmptyN3
    /\ faces = EmptyN3
    /\ models = DefaultModels
    /\ op = "init"
    /\ arg = NoArg
    /\ out = NoOut
    /\ report = NoReport
    /\ ApiIdle

\* POST /generate
Submit(job_id, prompt, model_type) ==
    /\ job_id \notin DOMAIN generation_jobs
    /\ \E request \in {GenerationRequest(prompt, model_type)} :
         IF request.model_type \notin AcceptedModelTypes
         THEN /\ out' = [status_code |-> 400]
              /\ UNCHANGED api
         ELSE /\ generation_jobs' =
                     (job_id :> NewJob(job_id, request)) @@ generation_jobs
              /\ tasks' = (job_id :> NewTask(request)) @@ tasks
              /\ out' = [status_code |-> 200, id |-> job_id,
                         status |-> "queued", progress |-> 0]
              /\ UNCHANGED active_connections
    /\ op' = "post_generate"
    /\ arg' = NoArg
    /\ UNCHANGED <<res, vertices, faces, models, report>>

\* GET /generate/{job_id}
GetStatus(job_id) ==
    /\ out' = IF job_id \notin DOMAIN generation_jobs
              THEN [status_code |-> 404]
              ELSE LET job == generation_jobs[job_id]
                   IN  [status_code |-> 200, id |-> job_id,
                        status |-> job.status, progress |-> job.progress,
                        file_url |-> job.file_path # Absent]
    /\ op' = "get_status"
    /\ arg' = NoArg
    /\ UNCHANGED <<res, vertices, faces, models, report, api>>

\* the task of job j as it resumes
Resumed(j) == [job |-> generation_jobs[j], task |-> tasks[j], models |-> models]

\* the task of job j runs on from st until it is suspended again, which
\* it is after three steps at most (the progress broadcast returns, the
\* inner try runs, the next broadcast finds the list empty)
RunOn(j, st, made) ==
    \E s1 \in {Step(st, active_connections, made)} :
    \E s2 \in {Step(s1, active_connections, made)} :
    \E s3 \in {Step(s2, active_connections, made)} :
        /\ s3.task.pc \in Suspended
        /\ generation_jobs' = [generation_jobs EXCEPT ![j] = s3.job]
        /\ tasks' = [tasks EXCEPT ![j] = s3.task]
        /\ models' = s3.models
        /\ UNCHANGED <<res, vertices, faces, op, arg, out, report,
                       active_connections>>

\* process_generation from its start
Start(j, made) ==
    /\ tasks[j].pc = "created"
    /\ \E st \in {[Resumed(j) EXCEPT
                      !.job.status = "processing",
                      !.task = BeginBroadcast(@, "processing",
                                              active_connections)]} :
         RunOn(j, st, made)

\* `await connection.send_text(message)` is over: it returned, or it raised
SendDone(j, sent, made) ==
    /\ tasks[j].pc = "sending"
    /\ \E st \in {IF sent
                   THEN [Resumed(j) EXCEPT
                            !.task.delivered = Append(@, tasks[j].target),
                            !.task.index = @ + 1,
                            !.task.pc = "broadcast"]
                   ELSE Raised(Resumed(j), tasks[j].site, "SendFailed",
                               active_connections)} :
         RunOn(j, st, made)

\* `await asyncio.sleep(1)` is over: the next progress value, and its
\* broadcast
SleepDone(j, made) ==
    /\ tasks[j].pc = "sleep"
    /\ \E st \in {[Resumed(j) EXCEPT
                      !.job.progress = ProgressSteps[tasks[j].k],
                      !.task = BeginBroadcast(@, "progress",
                                              active_connections)]} :
         RunOn(j, st, made)

\* the steps of the task of job j
TaskStep(j) ==
    /\ j \in DOMAIN tasks
    /\ \E saved \in BOOLEAN :
       \E made \in {CreateAiGeneratedModel(models, tasks[j].request.prompt, j,
                        tasks[j].request.model_type, saved)} :
           \/ Start(j, made)
           \/ \E sent \in BOOLEAN : SendDone(j, sent, made)
           \/ SleepDone(j, made)

\* websocket_endpoint: manager.connect
Connect(websocket) ==
    /\ \A i \in 1..Len(active_connections) : active_connections[i] # websocket
    /\ active_connections' = Append(active_connections, websocket)
    /\ UNCHANGED <<res, vertices, faces, models, op, arg, out, report,
                   generation_jobs, tasks>>

\* list.remove: the list without its first occurrence of the item
Remove(list, item) ==
    LET first == CHOOSE i \in 1..Len(list) :
                     list[i] = item /\ \A h \in 1..(i - 1) : list[h] # item
    IN  SubSeq(list, 1, first - 1) \o SubSeq(list, first + 1, Len(list))

\* websocket_endpoint on WebSocketDisconnect: manager.disconnect
Disconnect(websocket) ==
    /\ \E i \in 1..Len(active_connections) : active_connections[i] = websocket
    /\ active_connections' = Remove(active_connections, websocket)
    /\ tasks' = [j \in DOMAIN tasks |->
                    [tasks[j] EXCEPT !.present = @ \ {websocket}]]
    /\ UNCHANGED <<res, vertices, faces, models, op, arg, out, report,
                   generation_jobs>>

NextJobs ==
    \/ \E j \in JobIds, p \in JobPrompts, t \in BodyModelTypes : Submit(j, p, t)
    \/ \E j \in JobIds : GetStatus(j)
    \/ \E j \in JobIds : TaskStep(j)
    \/ \E w \in Sockets : Connect(w)
    \/ \E w \in Sockets : Disconnect(w)

SpecJobs == InitJobs /\ [][NextJobs]_vars

\* the event loop runs every task that is ready to go on
SpecJobsFair == SpecJobs /\ \A j \in JobIds : WF_vars(TaskStep(j))

-----------------------------------------------------------------------------
(* Properties of the job layer (SpecJobs, SpecJobsFair)                    *)

Terminal == {"completed", "failed"}

\* the status changes of the claim
StatusChanges ==
    { <<"queued", "processing">>, <<"processing", "completed">>,
      <<"processing", "failed">> }

(* C27 as stated: a job's status changes only along queued -> processing   *)
(* -> completed or processing -> failed; once a job is completed or failed *)
(* its status, progress and file_path never change again, whatever the     *)
(* outcome of generation and of the broadcasts; and a job's file_path is   *)
(* set only while its status is completed.                                 *)
C27_StatusOnlyForward ==
    /\ [](\A j \in DOMAIN generation_jobs :
             generation_jobs[j].file_path # Absent
                 => generation_jobs[j].status = "completed")
    /\ [][\A j \in DOMAIN generation_jobs :
             LET old == generation_jobs[j]
                 new == generation_jobs'[j]
             IN  /\ old.status # new.status
                        => <<old.status, new.status>> \in StatusChanges
                 /\ old.status \in Terminal
                        => /\ new.status = old.status
                           /\ new.progress = old.progress
                           /\ new.file_path = old.file_path]_vars

(* C28: every job accepted by POST /generate eventually reaches status     *)
(* completed or failed, provided its processing task keeps being           *)
(* scheduled: no job stays queued or processing forever, whether           *)
(* generation, file saving or any broadcast succeeds or raises.            *)
C28_EveryJobFinishes ==
    \A j \in JobIds :
        (j \in DOMAIN generation_jobs)
            ~> (j \in DOMAIN generation_jobs
                  /\ generation_jobs[j].status \in Terminal)

\* a broadcast raised in the outer handler too and ended the task: the
\* job had been marked failed before
C28_Witness ==
    \E j \in DOMAIN tasks :
        /\ tasks[j].pc = "crashed"
        /\ tasks[j].site = "failed_outer"
        /\ tasks[j].k = Len(ProgressSteps)
        /\ generation_jobs[j].status = "failed"
        /\ generation_jobs[j].error = "SendFailed"

\* how many times a broadcast has sent to a socket
TimesDelivered(task, websocket) ==
    Cardinality({i \in 1..Len(task.delivered) : task.delivered[i] = websocket})

(* C29 as stated: a broadcast that returns has sent the message exactly    *)
(* once to every connection that was in active_connections from its start  *)
(* to its end, even when other connections were added by connect or        *)
(* removed by disconnect while it was suspended awaiting a send.           *)
C29_BroadcastReachesEveryone ==
    \A j \in DOMAIN tasks :
        tasks[j].returned =>
            \A websocket \in tasks[j].present :
                TimesDelivered(tasks[j], websocket) = 1

(* C30 as stated: every model_type that POST /generate accepts names a     *)
(* model registered in the ModelManager, so a job that was accepted never  *)
(* ends failed with a "Model not found" error from the registry.           *)
C30_AcceptedJobFindsItsModel ==
    \A j \in DOMAIN generation_jobs :
        ~(/\ generation_jobs[j].status = "failed"
          /\ generation_jobs[j].error = "ModelNotFound")

====
